-------------------------- MODULE TurnTakingProofs --------------------------
(****************************************************************************)
(* Theorems about TurnTaking, for both programs, any number of children and *)
(* with or without failing calls.  The argument: a child that lives has its *)
(* place in the list, which is the number of its object, or was started     *)
(* this moment; so that a signal of one place leads to one child.           *)
(****************************************************************************)
EXTENDS TurnTaking, SequenceTheorems, TLAPS

USE VersionsAssumption, MaxStartsAssumption, FailuresAssumption
USE DEF Child, NoChild

\* The child just started, not in the list yet.
Pending == ppc \in {"push", "give up"} \/ (ppc = "create" /\ version = "semaphores")
InList(c) == number[c] \in DOMAIN processes /\ processes[number[c]] = c

\* After a failure a child is left over that is in no list; then it is the only one.
Alone(c) == ppc = "failed" /\ \A d \in Child : Live(d) => d = c

Places ==
  /\ Len(processes) <= started
  /\ \A i \in DOMAIN processes : processes[i] <= started /\ number[processes[i]] = i
  /\ ppc = "spawn" \/ (ppc = "create" /\ version = "events") => started < MaxStarts
  /\ Pending => started \in Child /\ number[started] = NewSlot /\ Len(processes) < started
  /\ \A c \in Child : Live(c) => InList(c) \/ (Pending /\ c = started) \/ Alone(c)

\* Who has a handle of its object, and which objects there are.
Handles ==
  /\ version = "semaphores" =>
       \A c \in Child : Live(c) /\ cpc[c] # "starting" => opened[c]
  /\ version = "events" =>
       /\ \A s \in DOMAIN processes : exists[s]
       /\ ppc = "push" \/ (ppc = "spawn" /\ handle) => exists[NewSlot]
       /\ \A c \in Child : Live(c) /\ cpc[c] # "starting" =>
            opened[c] \/ ~(InList(c) \/ ppc = "push")

\* InTurn, with what the events add to it.
Turns ==
  /\ \A c \in Child : Printing(c) /\ opened[c] =>
       Waiting /\ number[c] = Slot /\ processes[Slot] = c /\ (version = "events" => signal[Slot])
  /\ \A s \in Child : signal[s] =>
       /\ ppc = "wait" /\ s = Slot
       /\ version = "semaphores" => \A c \in Child : ~Printing(c)

\* A child that was started has the number of an object.
Numbered == \A c \in Child : Live(c) => number[c] \in Child

IInv == TypeOK /\ Places /\ Handles /\ Turns /\ AllClosed

LEMMA InitPlaces == Init => IInv
<1> SUFFICES ASSUME Init PROVE IInv
  OBVIOUS
<1>1. TypeOK
  <2>1. processes \in Seq(Child) /\ started \in 0..MaxStarts /\ number \in [Child -> 0..MaxStarts]
    BY DEF Init
  <2>2. QED
    BY <2>1 DEF Init, TypeOK
<1>2. Places /\ Handles /\ Turns /\ AllClosed
  BY DEF Init, Places, Handles, Turns, AllClosed, Pending, InList, Live, Printing
<1>3. QED
  BY <1>1, <1>2 DEF IInv

-----------------------------------------------------------------------------
(* The parent: keys *)

\* Steps of the parent that change nothing but its control point.
LEMMA PlainKeeps ==
  ASSUME IInv, NoKey \/ KeyAdd \/ SpawnAfterEventFails \/ NoTurn \/ SeeReset
  PROVE  IInv'
<1>1. /\ UNCHANGED <<version, processes, current, started, handle, childVars, objects>>
      /\ ppc \notin {"push", "give up", "failed", "done", "blocked"}
      /\ \/ ppc' \in {"turn", "keys", "failed"}
         \/ ppc' = "create" /\ version = "events" /\ started < MaxStarts
         \/ ppc' = "spawn" /\ version # "events" /\ started < MaxStarts
      /\ ~Pending
      /\ ppc = "wait" => version = "events" /\ ~signal[Slot]
  BY DEF NoKey, KeyAdd, SpawnAfterEventFails, NoTurn, SeeReset, Pending
<1>2. TypeOK'
  BY <1>1 DEF IInv, TypeOK, childVars, objects
<1>3. Places'
  BY <1>1 DEF IInv, TypeOK, Places, Alone, Pending, InList, Live, NewSlot, childVars
<1>4. Handles'
  BY <1>1 DEF IInv, TypeOK, Handles, InList, Live, NewSlot, childVars, objects
<1>5. Turns'
  <2>1. \A c \in Child : ~(Printing(c) /\ opened[c])
    BY <1>1 DEF IInv, Turns, Waiting
  <2>2. \A s \in Child : ~signal[s]
    BY <1>1 DEF IInv, Turns, Waiting
  <2>3. QED
    BY <1>1, <2>1, <2>2 DEF Turns, Printing, childVars, objects
<1>6. AllClosed'
  BY <1>1 DEF AllClosed
<1>7. QED
  BY <1>2, <1>3, <1>4, <1>5, <1>6 DEF IInv

\* Nobody prints and no signal is set while no turn is given.
LEMMA Quiet ==
  ASSUME IInv, ~Waiting
  PROVE  /\ \A c \in Child : ~(Printing(c) /\ opened[c])
         /\ \A s \in Child : ~signal[s]
  BY DEF IInv, Turns, Waiting

LEMMA QuietKept ==
  ASSUME IInv, ~Waiting, UNCHANGED <<version, opened>>,
         \A c \in Child : Printing(c)' => Printing(c),
         \A s \in Child : signal'[s] => signal[s]
  PROVE  Turns'
  BY Quiet DEF Turns

LEMMA Typed ==
  ASSUME TypeOK
  PROVE  /\ processes \in Seq(Child) /\ DOMAIN processes = 1..Len(processes)
         /\ Len(processes) \in Nat /\ started \in Nat /\ started <= MaxStarts
         /\ version \in {"events", "semaphores"}
<1>1. processes \in Seq(Child) /\ started \in 0..MaxStarts
  BY DEF TypeOK
<1>2. version \in {"events", "semaphores"}
  BY DEF TypeOK
<1>3. QED
  BY <1>1, <1>2

\* All children of the list are terminated.
LEMMA CloseAllKeeps ==
  ASSUME IInv, CloseAll, ~Waiting, ppc # "failed", ppc' \in {"done", "failed"}, ppc' = "done" => ppc = "keys",
         UNCHANGED <<version, current, started, handle, number, opened, exists>>
  PROVE  IInv'
<1>0. processes \in Seq(Child) /\ DOMAIN processes = 1..Len(processes) /\ started \in Nat
  BY Typed DEF IInv
<1>1. /\ processes' = <<>> /\ processes' \in Seq(Child) /\ Len(processes') = 0
      /\ DOMAIN processes' = {}
      /\ \A c \in Child : cpc'[c] = IF Listed(c) /\ Live(c) THEN "dead" ELSE cpc[c]
      /\ cpc' \in [Child -> {"none", "starting", "waiting", "blocked", "printing", "finishing",
                             "polling", "exited", "dead"}]
      /\ \A s \in Child : signal'[s] => signal[s]
      /\ signal' \in [Child -> BOOLEAN]
  <2>1. processes' = <<>> /\ cpc' = Terminated({processes[i] : i \in 1..Len(processes)}) /\ ResetUpTo(1)
    BY DEF CloseAll, CloseFrom
  <2>2. \A c \in Child : Listed(c) <=> c \in {processes[i] : i \in 1..Len(processes)}
    BY <1>0, Zenon DEF Listed
  <2>3. \A c \in Child : cpc'[c] = IF Listed(c) /\ Live(c) THEN "dead" ELSE cpc[c]
    BY <2>1, <2>2 DEF Terminated
  <2>4. cpc' = [c \in Child |-> cpc'[c]]
    BY <2>1 DEF Terminated
  <2>5. cpc' \in [Child -> {"none", "starting", "waiting", "blocked", "printing", "finishing",
                            "polling", "exited", "dead"}]
    BY <2>3, <2>4 DEF IInv, TypeOK
  <2>6. (\A s \in Child : signal'[s] => signal[s]) /\ signal' \in [Child -> BOOLEAN]
    BY <2>1 DEF ResetUpTo, IInv, TypeOK
  <2>7. processes' \in Seq(Child) /\ Len(processes') = 0 /\ DOMAIN processes' = {}
    BY <2>1
  <2>8. QED
    BY <2>1, <2>3, <2>5, <2>6, <2>7
<1>2. \A c \in Child : Live(c)' => Live(c) /\ cpc'[c] = cpc[c] /\ ~Listed(c)
  BY <1>1 DEF Live
<1>3. TypeOK'
  BY <1>1 DEF IInv, TypeOK
<1>4. \A c \in Child : Live(c)' => ~InList(c)
  BY <1>2 DEF InList, Listed
<1>5. Places'
  <2>1. \A c \in Child : Live(c)' => c = started /\ ppc' = "failed"
    BY <1>2, <1>4 DEF IInv, Places, Pending, Alone
  <2>2. ~Pending' /\ ppc' \notin {"spawn", "create"} /\ started \in Nat
    BY <1>0 DEF Pending
  <2>3. QED
    BY <1>1, <2>1, <2>2 DEF Places, Alone
<1>6. Handles'
  <2>1. version = "semaphores" => \A c \in Child : Live(c)' /\ cpc'[c] # "starting" => opened[c]
    BY <1>2 DEF IInv, Handles
  <2>2. \A c \in Child : ~InList(c)'
    BY <1>1 DEF InList
  <2>3. QED
    BY <1>1, <2>1, <2>2 DEF Handles
<1>7. Turns'
  BY <1>1, QuietKept DEF Printing
<1>8. AllClosed'
  BY <1>2, <1>4 DEF IInv, Places, Alone, Pending, AllClosed
<1>9. QED
  BY <1>3, <1>5, <1>6, <1>7, <1>8 DEF IInv

LEMMA QuitKeeps ==
  ASSUME IInv, KeyQuit \/ SpawnFirstFails \/ GiveUp PROVE IInv'
  BY CloseAllKeeps DEF KeyQuit, SpawnFirstFails, GiveUp, Waiting

\* The last child is terminated and leaves the list.
LEMMA RemoveKeeps ==
  ASSUME IInv, RemoveProcess \/ RemoveHandlePair PROVE IInv'
<1> DEFINE n == Len(processes)
<1>1. /\ ppc = "keys" /\ ppc' = "turn" /\ processes # <<>> /\ processes' = Rest
      /\ cpc' = Terminated({Last})
      /\ UNCHANGED <<version, current, started, handle, number, opened, exists>>
      /\ \A s \in Child : signal'[s] => signal[s]
      /\ signal' \in [Child -> BOOLEAN]
  BY DEF RemoveProcess, RemoveHandlePair, ResetUpTo, IInv, TypeOK
<1>2. /\ n \in Nat \ {0} /\ processes \in Seq(Child) /\ processes' \in Seq(Child)
      /\ Len(processes') = n - 1 /\ DOMAIN processes' = 1..n - 1 /\ DOMAIN processes = 1..n
      /\ \A i \in 1..n - 1 : processes'[i] = processes[i]
  <2>1. processes \in Seq(Child) /\ n \in Nat /\ n # 0 /\ DOMAIN processes = 1..n
    BY <1>1 DEF IInv, TypeOK
  <2>2. Rest \in Seq(Child) /\ Len(Rest) = n - 1 /\ \A i \in 1..n - 1 : Rest[i] = processes[i]
    BY <2>1 DEF Rest
  <2>3. QED
    BY <1>1, <2>1, <2>2
<1>3. /\ \A c \in Child : cpc'[c] = IF c = Last /\ Live(c) THEN "dead" ELSE cpc[c]
      /\ cpc' \in [Child -> {"none", "starting", "waiting", "blocked", "printing", "finishing",
                             "polling", "exited", "dead"}]
  BY <1>1 DEF Terminated, IInv, TypeOK
<1>4. \A c \in Child : Live(c)' => Live(c) /\ cpc'[c] = cpc[c] /\ c # processes[n]
  BY <1>3 DEF Live, Last
<1>5. TypeOK'
  BY <1>1, <1>2, <1>3 DEF IInv, TypeOK
<1>6. \A c \in Child : Live(c)' => InList(c) /\ InList(c)'
  <2> SUFFICES ASSUME NEW c \in Child, Live(c)' PROVE InList(c) /\ InList(c)'
    OBVIOUS
  <2>1. InList(c)
    BY <1>1, <1>4 DEF IInv, Places, Alone, Pending
  <2>2. number[c] \in 1..n - 1
    BY <1>2, <1>4, <2>1 DEF InList
  <2>3. QED
    BY <1>1, <1>2, <2>1, <2>2 DEF InList
<1>7. Places'
  <2>1. ~Pending' /\ ppc' = "turn" /\ n <= started /\ started \in Nat
    BY <1>1 DEF Pending, IInv, Places, TypeOK
  <2>2. \A i \in DOMAIN processes' : processes'[i] <= started /\ number[processes'[i]] = i
    <3>1. \A i \in 1..n : processes[i] <= started /\ number[processes[i]] = i
      BY <1>2 DEF IInv, Places
    <3>2. DOMAIN processes' = 1..n - 1 /\ \A i \in 1..n - 1 : i \in 1..n /\ processes'[i] = processes[i]
      BY <1>2
    <3> HIDE DEF n
    <3>3. QED
      BY <3>1, <3>2
  <2>3. Len(processes') <= started
    BY <1>2, <2>1
  <2>4. QED
    BY <1>1, <1>6, <2>1, <2>2, <2>3 DEF Places
<1>8. Handles'
  <2>1. version = "semaphores" => \A c \in Child : Live(c)' /\ cpc'[c] # "starting" => opened[c]
    BY <1>4 DEF IInv, Handles
  <2>2. version = "events" => \A s \in DOMAIN processes' : exists[s]
    BY <1>2 DEF IInv, Handles
  <2>3. version = "events" => \A c \in Child : Live(c)' /\ cpc'[c] # "starting" => opened[c]
    BY <1>4, <1>6 DEF IInv, Handles
  <2>4. QED
    BY <1>1, <2>1, <2>2, <2>3 DEF Handles
<1>9. Turns'
  BY <1>1, <1>3, QuietKept DEF Printing, Waiting
<1>10. AllClosed'
  BY <1>1 DEF AllClosed
<1>11. QED
  BY <1>5, <1>7, <1>8, <1>9, <1>10 DEF IInv

-----------------------------------------------------------------------------
(* The parent: a new child *)

LEMMA CreateKeeps ==
  ASSUME IInv, CreateEvent \/ CreateSemaphore PROVE IInv'
<1>1. /\ ppc = "create" /\ UNCHANGED <<version, processes, current, started, childVars, signal>>
      /\ \/ version = "events" /\ ppc' = "spawn"
         \/ version = "semaphores" /\ ppc' \in {"push", "give up"} /\ UNCHANGED handle
      /\ handle' \in BOOLEAN
  BY DEF CreateEvent, CreateSemaphore, Create, objects, IInv, TypeOK
<1>2. /\ exists' \in [Child -> BOOLEAN]
      /\ \A s \in Child : exists[s] => exists'[s]
      /\ version = "events" /\ handle' /\ NewSlot \in Child => exists'[NewSlot]
  BY DEF CreateEvent, CreateSemaphore, Create, objects, IInv, TypeOK
<1>3. TypeOK'
  BY <1>1, <1>2 DEF IInv, TypeOK, childVars
<1>4. version = "events" => NewSlot \in Child
  BY <1>1, Typed DEF IInv, Places, NewSlot
<1>5. Places'
  <2>1. NewSlot' = NewSlot /\ \A c \in Child : (InList(c)' <=> InList(c)) /\ (Live(c)' <=> Live(c))
    BY <1>1 DEF NewSlot, InList, Live, childVars
  <2>2. Pending' => Pending
    BY <1>1 DEF Pending
  <2>3. Pending => Pending'
    BY <1>1 DEF Pending
  <2>4. QED
    BY <1>1, <2>1, <2>2, <2>3 DEF IInv, Places, Alone, childVars
<1>6. Handles'
  <2>1. \A s \in DOMAIN processes : s \in Child
    <3>1. Len(processes) <= started /\ TypeOK
      BY DEF IInv, Places
    <3>2. QED
      BY <3>1, Typed
  <2>2. version = "events" => \A s \in DOMAIN processes : exists'[s]
    BY <1>2, <2>1 DEF IInv, Handles
  <2>3. \A c \in Child : (InList(c)' <=> InList(c)) /\ (Live(c)' <=> Live(c)) /\ cpc'[c] = cpc[c]
    BY <1>1 DEF InList, Live, childVars
  <2>4. version = "events" => ppc' # "push"
    BY <1>1
  <2>5. NewSlot' = NewSlot /\ UNCHANGED <<version, processes, opened>>
    BY <1>1 DEF NewSlot, childVars
  <2>6. version = "events" => ppc' = "spawn" /\ (handle' => exists'[NewSlot])
    BY <1>1, <1>2, <1>4
  <2>7. QED
    BY <2>2, <2>3, <2>4, <2>5, <2>6 DEF IInv, Handles
<1>7. Turns'
  BY <1>1, QuietKept DEF Printing, Waiting, childVars
<1>8. AllClosed'
  BY <1>1 DEF AllClosed
<1>9. QED
  BY <1>3, <1>5, <1>6, <1>7, <1>8 DEF IInv

LEMMA SpawnKeeps ==
  ASSUME IInv, SpawnAfterEvent \/ SpawnFirst PROVE IInv'
<1> DEFINE n == started + 1
<1>1. /\ ppc = "spawn" /\ Start(NewSlot)
      /\ UNCHANGED <<version, processes, current, handle, opened, exists, signal>>
      /\ \/ version = "events" /\ ppc' = IF handle THEN "push" ELSE "give up"
         \/ version = "semaphores" /\ ppc' = "create"
  BY DEF SpawnAfterEvent, SpawnFirst, objects
<1>2. /\ n \in Child /\ started \in Nat /\ started' = n /\ Len(processes) <= started
      /\ processes \in Seq(Child) /\ DOMAIN processes = 1..Len(processes)
      /\ Len(processes) \in Nat
  <2>1. TypeOK /\ started < MaxStarts /\ Len(processes) <= started /\ started' = n
    BY <1>1 DEF IInv, Places, Start
  <2>2. QED
    BY <2>1, Typed
<1>3. /\ \A c \in Child : c # n => cpc'[c] = cpc[c] /\ number'[c] = number[c]
      /\ cpc'[n] = "starting" /\ number'[n] = NewSlot
      /\ cpc' \in [Child -> {"none", "starting", "waiting", "blocked", "printing", "finishing",
                             "polling", "exited", "dead"}]
      /\ number' \in [Child -> 0..MaxStarts]
  <2>1. NewSlot \in 0..MaxStarts
    BY <1>2 DEF NewSlot
  <2>2. cpc' = [cpc EXCEPT ![n] = "starting"] /\ number' = [number EXCEPT ![n] = NewSlot]
    BY <1>1 DEF Start
  <2> HIDE DEF n
  <2>3. QED
    BY <1>2, <2>1, <2>2 DEF IInv, TypeOK
<1>4. TypeOK'
  <2>1. started' \in 0..MaxStarts
    BY <1>2
  <2>2. QED
    BY <1>1, <1>3, <2>1 DEF IInv, TypeOK
<1>5. \A i \in DOMAIN processes : processes[i] \in Child /\ processes[i] # n
  BY <1>2 DEF IInv, Places
<1>6. Pending' /\ NewSlot' = NewSlot /\ ~Pending
  BY <1>1 DEF Pending, NewSlot
<1>7. ASSUME NEW c \in Child, c # n, Live(c)' PROVE InList(c) /\ InList(c)' /\ Live(c)
  BY <1>1, <1>3, <1>6, <1>7 DEF IInv, Places, Alone, InList, Live
<1>8. Places'
  <2>1. \A i \in DOMAIN processes' : processes'[i] <= started' /\ number'[processes'[i]] = i
    <3>1. \A i \in DOMAIN processes : processes[i] <= started /\ number[processes[i]] = i
      BY DEF IInv, Places
    <3>2. \A i \in DOMAIN processes : number'[processes[i]] = number[processes[i]]
      BY <1>3, <1>5
    <3>3. \A i \in DOMAIN processes : processes[i] <= n
      BY <3>1, <1>2, <1>5
    <3>4. QED
      BY <1>1, <1>2, <3>1, <3>2, <3>3
  <2>2. Len(processes') < started' /\ ppc' # "spawn" /\ ~(ppc' = "create" /\ version' = "events")
    <3>1. processes' = processes /\ Len(processes) < n /\ started' = n
      <4>1. Len(processes) < n
        BY <1>2
      <4>2. QED
        BY <1>1, <1>2, <4>1
    <3>2. ppc' # "spawn" /\ ~(ppc' = "create" /\ version' = "events")
      BY <1>1
    <3> HIDE DEF n
    <3>3. QED
      BY <3>1, <3>2
  <2>3. \A c \in Child : Live(c)' => InList(c)' \/ (Pending' /\ c = started')
    BY <1>2, <1>6, <1>7
  <2>4. started' \in Child /\ number'[started'] = NewSlot'
    BY <1>2, <1>3, <1>6
  <2>5. Len(processes') <= started'
    <3>1. processes' = processes /\ Len(processes) <= n /\ started' = n
      <4>1. Len(processes) <= n
        BY <1>2
      <4>2. QED
        BY <1>1, <1>2, <4>1
    <3> HIDE DEF n
    <3>2. QED
      BY <3>1
  <2>6. QED
    BY <2>1, <2>2, <2>3, <2>4, <2>5 DEF Places
<1>9. Handles'
  <2>1. ASSUME NEW c \in Child, Live(c)', cpc'[c] # "starting" PROVE opened[c]
    <3>1. c # n /\ cpc'[c] = cpc[c] /\ Live(c) /\ InList(c)
      BY <1>3, <1>7, <2>1
    <3>2. version \in {"events", "semaphores"}
      BY DEF IInv, TypeOK
    <3>3. QED
      BY <2>1, <3>1, <3>2 DEF IInv, Handles
  <2>2. version = "events" /\ ppc' = "push" => exists[NewSlot]
    BY <1>1 DEF IInv, Handles
  <2>3. QED
    BY <1>1, <1>6, <2>1, <2>2 DEF IInv, Handles
<1>10. Turns'
  <2>1. \A c \in Child : Printing(c)' => Printing(c)
    BY <1>3 DEF Printing
  <2>2. QED
    BY <1>1, <2>1, QuietKept DEF Waiting
<1>11. AllClosed'
  BY <1>1 DEF AllClosed
<1>12. QED
  BY <1>4, <1>8, <1>9, <1>10, <1>11 DEF IInv

LEMMA PushKeeps ==
  ASSUME IInv, Push PROVE IInv'
<1> DEFINE n == Len(processes)
<1>1. /\ ppc = "push" /\ ppc' = "turn" /\ processes' = Append(processes, started)
      /\ UNCHANGED <<version, current, started, handle, childVars, objects>> /\ Pending
  BY DEF Push, Pending
<1>2. /\ processes \in Seq(Child) /\ DOMAIN processes = 1..n /\ n \in Nat /\ started \in Child
      /\ n < started /\ number[started] = n + 1
  BY <1>1, Typed DEF IInv, Places, NewSlot
<1>3. /\ processes' \in Seq(Child) /\ Len(processes') = n + 1 /\ DOMAIN processes' = 1..n + 1
      /\ processes'[n + 1] = started /\ \A i \in 1..n : processes'[i] = processes[i]
  BY <1>1, <1>2
<1>4. TypeOK'
  BY <1>1, <1>3 DEF IInv, TypeOK, childVars, objects
<1>5. \A c \in Child : (Live(c)' <=> Live(c)) /\ number'[c] = number[c] /\ (InList(c) => InList(c)')
  BY <1>1, <1>2, <1>3 DEF Live, InList, childVars
<1>6. InList(started)'
  BY <1>1, <1>2, <1>3 DEF InList, childVars
<1>7. Places'
  <2>1. ASSUME NEW i \in 1..n + 1 PROVE processes'[i] <= started /\ number[processes'[i]] = i
    <3>1. CASE i = n + 1
      BY <1>2, <1>3, <3>1
    <3>2. CASE i \in 1..n
      BY <1>2, <1>3, <3>2 DEF IInv, Places
    <3>3. QED
      BY <1>2, <3>1, <3>2
  <2>2. \A c \in Child : Live(c)' => InList(c)'
    BY <1>1, <1>5, <1>6 DEF IInv, Places, Alone
  <2>3. ~Pending' /\ ppc' = "turn" /\ n + 1 <= started
    BY <1>1, <1>2 DEF Pending
  <2>4. QED
    BY <1>1, <1>3, <2>1, <2>2, <2>3 DEF Places, childVars
<1>8. Handles'
  <2>1. ASSUME NEW i \in 1..n + 1, version = "events" PROVE exists[i]
    <3>1. exists[n + 1] /\ \A s \in 1..n : exists[s]
      BY <1>1, <1>2, <2>1 DEF IInv, Handles, NewSlot
    <3>2. QED
      BY <1>2, <3>1
  <2>2. ASSUME NEW c \in Child, Live(c)', cpc'[c] # "starting" PROVE opened[c]
    <3>1. version \in {"events", "semaphores"}
      BY DEF IInv, TypeOK
    <3>2. Live(c) /\ cpc[c] # "starting"
      BY <1>1, <1>5, <2>2 DEF childVars
    <3>3. QED
      BY <1>1, <3>1, <3>2 DEF IInv, Handles
  <2>3. QED
    BY <1>1, <1>3, <2>1, <2>2 DEF Handles, childVars, objects
<1>9. Turns'
  BY <1>1, QuietKept DEF Printing, Waiting, childVars, objects
<1>10. AllClosed'
  BY <1>1 DEF AllClosed
<1>11. QED
  BY <1>4, <1>7, <1>8, <1>9, <1>10 DEF IInv

-----------------------------------------------------------------------------
(* The parent: a turn *)

\* While a turn is on, the living children are those of the list, with their handles.
LEMMA AllListed ==
  ASSUME IInv, ppc \in {"turn", "wait", "blocked"}, NEW c \in Child, Live(c)
  PROVE  InList(c) /\ (cpc[c] # "starting" => opened[c])
<1>1. InList(c)
  BY DEF IInv, Places, Alone, Pending
<1>2. version \in {"events", "semaphores"}
  BY Typed DEF IInv
<1>3. QED
  BY <1>1, <1>2 DEF IInv, Handles

\* A turn changes neither the list nor who lives.
LEMMA TurnFrame ==
  ASSUME IInv, ppc \in {"turn", "wait", "blocked"}, ppc' \in {"turn", "wait", "blocked", "keys"},
         UNCHANGED <<version, processes, started, handle, number, opened, exists>>,
         \A c \in Child : Live(c)' => Live(c) /\ (cpc'[c] = "starting" <=> cpc[c] = "starting")
  PROVE  Places' /\ Handles' /\ AllClosed'
<1>1. ASSUME NEW c \in Child, Live(c)' PROVE InList(c) /\ InList(c)' /\ (cpc'[c] # "starting" => opened[c])
  BY <1>1, AllListed DEF InList
<1>2. Places'
  BY <1>1 DEF IInv, Places, Pending
<1>3. Handles'
  BY <1>1 DEF IInv, Handles
<1>4. AllClosed'
  BY DEF AllClosed
<1>5. QED
  BY <1>2, <1>3, <1>4

LEMMA SlotListed ==
  ASSUME TypeOK, processes # <<>>, current' = Successor(current), UNCHANGED processes
  PROVE  current' \in Nat /\ Slot' \in DOMAIN processes
<1>1. Len(processes) \in Nat /\ Len(processes) # 0 /\ DOMAIN processes = 1..Len(processes)
  BY Typed
<1>2. current \in Nat
  BY DEF TypeOK
<1>3. current' = IF current + 1 >= Len(processes) THEN 0 ELSE current + 1
  BY DEF Successor
<1>4. QED
  BY <1>1, <1>2, <1>3 DEF Slot

LEMMA SetEventKeeps ==
  ASSUME IInv, SetEvent PROVE IInv'
<1>1. /\ ppc = "turn" /\ version = "events" /\ processes # <<>> /\ ppc' = "wait"
      /\ current' = Successor(current) /\ signal' = [signal EXCEPT ![Slot'] = TRUE]
      /\ UNCHANGED <<version, processes, started, handle, childVars, exists>>
  BY DEF SetEvent, Slot
<1>2. current' \in Nat /\ Slot' \in DOMAIN processes
  BY <1>1, SlotListed DEF IInv
<1>3. TypeOK'
  BY <1>1, <1>2 DEF IInv, TypeOK, childVars
<1>4. Places' /\ Handles' /\ AllClosed'
  BY <1>1, TurnFrame DEF childVars, Live
<1>5. Turns'
  <2>1. (\A c \in Child : ~(Printing(c) /\ opened[c])) /\ \A s \in Child : ~signal[s]
    BY <1>1, Quiet DEF Waiting
  <2>2. \A s \in Child : signal'[s] => s = Slot'
    BY <1>1, <2>1 DEF IInv, TypeOK
  <2>3. QED
    BY <1>1, <2>1, <2>2 DEF Turns, Printing, childVars
<1>6. QED
  BY <1>3, <1>4, <1>5 DEF IInv

\* No semaphore is refused: the parent always gives the turn.
LEMMA TurnIsGiven ==
  ASSUME IInv, ReleaseTurn
  PROVE  /\ ppc = "turn" /\ version = "semaphores" /\ processes # <<>>
         /\ current' = Successor(current) /\ Slot' \in Child
         /\ UNCHANGED <<version, started, handle, number, opened, exists>>
         /\ (\A c \in Child : ~(Printing(c) /\ opened[c])) /\ \A s \in Child : ~signal[s]
         /\ ppc' = "wait" /\ UNCHANGED processes
         /\ \/ \E c \in Blocked(Slot') : cpc' = [cpc EXCEPT ![c] = "printing"] /\ UNCHANGED signal
            \/ signal' = [signal EXCEPT ![Slot'] = TRUE] /\ UNCHANGED cpc
<1>1. /\ ppc = "turn" /\ version = "semaphores" /\ processes # <<>>
      /\ current' = Successor(current)
      /\ UNCHANGED <<version, started, handle, number, opened, exists>>
  BY DEF ReleaseTurn
<1>2. (\A c \in Child : ~(Printing(c) /\ opened[c])) /\ \A s \in Child : ~signal[s]
  BY <1>1, Quiet DEF Waiting
<1>3. Slot' \in Child
  <2>1. Slot' \in 1..Len(processes) /\ Len(processes) <= started
    <3>1. CASE UNCHANGED processes
      BY <1>1, <3>1, SlotListed, Typed DEF IInv, Places
    <3>2. CASE ~UNCHANGED processes
      <4>1. Len(processes) \in Nat /\ Len(processes) # 0 /\ current \in Nat
        BY <1>1, Typed DEF IInv, TypeOK
      <4>2. current' = IF current + 1 >= Len(processes) THEN 0 ELSE current + 1
        BY <1>1 DEF Successor
      <4>3. Slot' \in 1..Len(processes)
        BY <4>1, <4>2 DEF Slot
      <4>4. QED
        BY <4>3 DEF IInv, Places
    <3>3. QED
      BY <3>1, <3>2
  <2>2. QED
    BY <2>1, Typed DEF IInv
<1>4. /\ ppc' = "wait" /\ UNCHANGED processes
      /\ \/ \E c \in Blocked(Slot') : cpc' = [cpc EXCEPT ![c] = "printing"] /\ UNCHANGED signal
         \/ signal' = [signal EXCEPT ![Slot'] = TRUE] /\ UNCHANGED cpc
  BY <1>2, <1>3 DEF ReleaseTurn, Slot
<1>5. QED
  BY <1>1, <1>2, <1>3, <1>4

LEMMA ReleaseTurnKeeps ==
  ASSUME IInv, ReleaseTurn PROVE IInv'
<1>1. /\ ppc = "turn" /\ version = "semaphores" /\ processes # <<>>
      /\ current' = Successor(current)
      /\ UNCHANGED <<version, started, handle, number, opened, exists>>
  BY TurnIsGiven
<1>2. (\A c \in Child : ~(Printing(c) /\ opened[c])) /\ \A s \in Child : ~signal[s]
  BY TurnIsGiven
<1>3. Slot' \in Child
  BY TurnIsGiven
<1>4. /\ ppc' = "wait" /\ UNCHANGED processes
      /\ \/ \E c \in Blocked(Slot') : cpc' = [cpc EXCEPT ![c] = "printing"] /\ UNCHANGED signal
         \/ signal' = [signal EXCEPT ![Slot'] = TRUE] /\ UNCHANGED cpc
  BY TurnIsGiven
<1>5. current' \in Nat /\ Slot' \in DOMAIN processes
  BY <1>1, <1>4, SlotListed DEF IInv
<1>6. CASE \E c \in Blocked(Slot') : cpc' = [cpc EXCEPT ![c] = "printing"] /\ UNCHANGED signal
  <2>1. PICK c \in Blocked(Slot') : cpc' = [cpc EXCEPT ![c] = "printing"] /\ UNCHANGED signal
    BY <1>6
  <2>2. c \in Child /\ cpc[c] = "blocked" /\ number[c] = Slot' /\ Live(c)
    BY DEF Blocked, Live
  <2>3. /\ cpc'[c] = "printing" /\ \A d \in Child : d # c => cpc'[d] = cpc[d]
        /\ cpc' \in [Child -> {"none", "starting", "waiting", "blocked", "printing", "finishing",
                               "polling", "exited", "dead"}]
    BY <2>1, <2>2 DEF IInv, TypeOK
  <2>4. processes[Slot'] = c
    BY <1>1, <2>2, AllListed DEF InList
  <2>5. TypeOK'
    BY <1>1, <1>4, <1>5, <2>1, <2>3 DEF IInv, TypeOK
  <2>6. Places' /\ Handles' /\ AllClosed'
    BY <1>1, <1>4, <2>2, <2>3, TurnFrame DEF Live
  <2>7. Turns'
    <3>1. \A d \in Child : Printing(d)' /\ opened[d] => d = c
      BY <1>2, <2>3 DEF Printing
    <3>2. QED
      BY <1>1, <1>2, <1>4, <2>1, <2>2, <2>4, <3>1 DEF Turns, Waiting
  <2>8. QED
    BY <2>5, <2>6, <2>7 DEF IInv
<1>7. CASE signal' = [signal EXCEPT ![Slot'] = TRUE] /\ UNCHANGED cpc
  <2>1. \A s \in Child : signal'[s] => s = Slot'
    BY <1>2, <1>7 DEF IInv, TypeOK
  <2>2. TypeOK'
    BY <1>1, <1>4, <1>5, <1>7 DEF IInv, TypeOK
  <2>3. Places' /\ Handles' /\ AllClosed'
    BY <1>1, <1>4, <1>7, TurnFrame DEF Live
  <2>4. Turns'
    <3>1. \A c \in Child : ~Printing(c)
      BY <1>1, <1>2, AllListed DEF Printing, Live
    <3>2. QED
      BY <1>1, <1>4, <1>7, <2>1, <3>1 DEF Turns, Printing
  <2>5. QED
    BY <2>2, <2>3, <2>4 DEF IInv
<1>8. QED
  BY <1>4, <1>6, <1>7

LEMMA WaitTurnKeeps ==
  ASSUME IInv, WaitTurn PROVE IInv'
<1>1. /\ ppc = "wait" /\ version = "semaphores" /\ ppc' = IF signal[Slot] THEN "keys" ELSE "blocked"
      /\ signal' = [signal EXCEPT ![Slot] = FALSE]
      /\ UNCHANGED <<version, processes, current, started, handle, childVars, exists>>
  BY DEF WaitTurn
<1>2. Slot \in Child
  <2>1. Slot \in 1..Len(processes) /\ Len(processes) <= started
    BY <1>1, Typed DEF IInv, TypeOK, Places
  <2>2. QED
    BY <2>1, Typed DEF IInv
<1>3. TypeOK'
  BY <1>1 DEF IInv, TypeOK, childVars, Slot
<1>4. Places' /\ Handles' /\ AllClosed'
  BY <1>1, TurnFrame DEF childVars, Live
<1>5. Turns'
  <2>1. \A s \in Child : ~signal'[s]
    BY <1>1, <1>2 DEF IInv, Turns, TypeOK
  <2>2. CASE signal[Slot]
    <3>1. \A c \in Child : ~Printing(c)
      BY <1>1, <1>2, <2>2 DEF IInv, Turns
    <3>2. QED
      BY <1>1, <2>1, <3>1 DEF Turns, Printing, childVars
  <2>3. CASE ~signal[Slot]
    BY <1>1, <2>1, <2>3 DEF IInv, Turns, Printing, Waiting, Slot, childVars
  <2>4. QED
    BY <2>2, <2>3
<1>6. QED
  BY <1>3, <1>4, <1>5 DEF IInv

-----------------------------------------------------------------------------
(* Children and objects *)

\* What all steps of a child have in common; c is the child, now at a place l.
LEMMA ChildFrame ==
  ASSUME IInv, NEW c \in Child, NEW l, Live(c), cpc' = [cpc EXCEPT ![c] = l], l # "starting",
         UNCHANGED <<version, processes, current, started, handle, number, exists>>,
         ppc' = ppc \/ (ppc = "blocked" /\ ppc' = "keys"),
         \A d \in Child : d # c => opened'[d] = opened[d],
         Live(c)' => \/ opened'[c]
                     \/ version = "events" /\ ~(InList(c) \/ ppc = "push")
  PROVE  Places' /\ Handles' /\ AllClosed'
<1>1. /\ cpc'[c] = l /\ \A d \in Child : d # c => cpc'[d] = cpc[d]
      /\ \A d \in Child : (Live(d)' => Live(d)) /\ (InList(d)' <=> InList(d))
  BY DEF IInv, TypeOK, Live, InList
<1>2. (Pending' <=> Pending) /\ NewSlot' = NewSlot
  BY DEF Pending, NewSlot
<1>3. Places'
  <2>1. \A d \in Child : Live(d)' => InList(d)' \/ (Pending' /\ d = started') \/ Alone(d)'
    BY <1>1, <1>2 DEF IInv, Places, Alone
  <2>2. QED
    BY <1>2, <2>1 DEF IInv, Places
<1>4. Handles'
  <2>1. ASSUME NEW d \in Child, Live(d)', cpc'[d] # "starting"
        PROVE  opened'[d] \/ (version = "events" /\ ~(InList(d) \/ ppc = "push"))
    <3>1. CASE d = c
      BY <2>1, <3>1
    <3>2. CASE d # c
      <4>1. version \in {"events", "semaphores"}
        BY Typed DEF IInv
      <4>2. QED
        BY <1>1, <2>1, <3>2, <4>1 DEF IInv, Handles
    <3>3. QED
      BY <3>1, <3>2
  <2>2. version = "events" => /\ \A s \in DOMAIN processes : exists[s]
                              /\ ppc = "push" \/ (ppc = "spawn" /\ handle) => exists[NewSlot]
    BY DEF IInv, Handles
  <2>3. version \in {"events", "semaphores"}
    BY Typed DEF IInv
  <2>4. QED
    BY <1>1, <1>2, <2>1, <2>2, <2>3 DEF Handles
<1>5. AllClosed'
  BY <1>1 DEF IInv, AllClosed
<1>6. QED
  BY <1>3, <1>4, <1>5

LEMMA OpenKeeps ==
  ASSUME IInv, Numbered, NEW c \in Child, OpenEvent(c) \/ OpenSemaphore(c) PROVE IInv'
<1> DEFINE l == cpc'[c]
<1>1. /\ cpc[c] = "starting" /\ Live(c) /\ cpc' = [cpc EXCEPT ![c] = l] /\ l \in {"waiting", "exited"}
      /\ opened' = [opened EXCEPT ![c] = exists[number[c]]]
      /\ UNCHANGED <<version, parentVars, number, objects>>
      /\ version = "semaphores" /\ l = "waiting" => exists[number[c]]
  BY DEF OpenEvent, OpenSemaphore, IInv, TypeOK, Live
<1>2. number[c] \in Child
  BY <1>1 DEF Numbered
<1>3. TypeOK'
  BY <1>1, <1>2 DEF IInv, TypeOK, parentVars, objects, Slot
<1>4. opened'[c] = exists[number[c]] /\ \A d \in Child : d # c => opened'[d] = opened[d] /\ cpc'[d] = cpc[d]
  BY <1>1 DEF IInv, TypeOK
<1>5. version = "events" /\ (InList(c) \/ ppc = "push") => exists[number[c]]
  <2>1. CASE InList(c)
    BY <2>1 DEF IInv, Handles, InList
  <2>2. CASE ~InList(c) /\ ppc = "push"
    <3>1. number[c] = NewSlot
      BY <1>1, <2>2 DEF IInv, Places, Alone, Pending
    <3>2. QED
      BY <2>2, <3>1 DEF IInv, Handles
  <2>3. QED
    BY <2>1, <2>2
<1>6. Places' /\ Handles' /\ AllClosed'
  <2>1. Live(c)' => opened'[c] \/ (version = "events" /\ ~(InList(c) \/ ppc = "push"))
    <3>1. version \in {"events", "semaphores"}
      BY Typed DEF IInv
    <3>2. QED
      BY <1>1, <1>4, <1>5, <3>1 DEF Live
  <2> HIDE DEF l
  <2>2. QED
    BY <1>1, <1>4, <2>1, ChildFrame DEF parentVars, objects
<1>7. Turns'
  <2>1. \A d \in Child : Printing(d)' => Printing(d) /\ opened'[d] = opened[d] /\ d # c
    BY <1>1, <1>4 DEF Printing
  <2>2. QED
    BY <1>1, <2>1 DEF IInv, Turns, Waiting, Slot, parentVars, objects
<1>8. QED
  BY <1>3, <1>6, <1>7 DEF IInv

\* The step of a child that has its handle already.
LEMMA ChildMoves ==
  ASSUME IInv, NEW c \in Child, NEW l, Live(c), cpc[c] # "starting", l \notin {"starting", "none", "dead"},
         cpc' = [cpc EXCEPT ![c] = l],
         l \in {"waiting", "blocked", "printing", "finishing", "polling", "exited"},
         UNCHANGED <<version, processes, current, started, handle, number, opened, exists>>,
         ppc' = ppc \/ (ppc = "blocked" /\ ppc' = "keys"),
         signal' \in [Child -> BOOLEAN]
  PROVE  /\ TypeOK' /\ Places' /\ Handles' /\ AllClosed'
         /\ cpc'[c] = l /\ \A d \in Child : d # c => cpc'[d] = cpc[d]
<1>1. TypeOK'
  BY DEF IInv, TypeOK, Slot
<1>2. opened[c] \/ (version = "events" /\ ~(InList(c) \/ ppc = "push"))
  <2>1. version \in {"events", "semaphores"}
    BY Typed DEF IInv
  <2>2. QED
    BY <2>1 DEF IInv, Handles
<1>3. Places' /\ Handles' /\ AllClosed'
  BY <1>2, ChildFrame
<1>4. cpc'[c] = l /\ \A d \in Child : d # c => cpc'[d] = cpc[d]
  BY DEF IInv, TypeOK
<1>5. QED
  BY <1>1, <1>3, <1>4

\* A child that finds its signal set is the one whose turn it is.
LEMMA SignalOfTurn ==
  ASSUME IInv, Numbered, NEW c \in Child, Live(c), signal[number[c]]
  PROVE  ppc = "wait" /\ number[c] = Slot /\ processes[Slot] = c
<1>1. ppc = "wait" /\ number[c] = Slot
  BY DEF IInv, Turns, Numbered
<1>2. QED
  BY <1>1, AllListed DEF InList

LEMMA WaitEventKeeps ==
  ASSUME IInv, Numbered, NEW c \in Child, WaitEvent(c) PROVE IInv'
<1>1. /\ cpc[c] = "waiting" /\ version = "events" /\ (opened[c] => signal[number[c]]) /\ Live(c)
      /\ cpc' = [cpc EXCEPT ![c] = "printing"] /\ UNCHANGED <<version, parentVars, number, opened, objects>>
  BY DEF WaitEvent, Live
<1>2. /\ TypeOK' /\ Places' /\ Handles' /\ AllClosed'
      /\ cpc'[c] = "printing" /\ \A d \in Child : d # c => cpc'[d] = cpc[d]
  BY <1>1, ChildMoves DEF IInv, TypeOK, parentVars, objects
<1>3. Turns'
  <2>1. opened[c] => ppc = "wait" /\ number[c] = Slot /\ processes[Slot] = c /\ signal[Slot]
    BY <1>1, SignalOfTurn
  <2>2. QED
    BY <1>1, <1>2, <2>1 DEF IInv, Turns, Printing, Waiting, Slot, parentVars, objects
<1>4. QED
  BY <1>2, <1>3 DEF IInv

LEMMA WaitSemaphoreKeeps ==
  ASSUME IInv, Numbered, NEW c \in Child, WaitSemaphore(c) PROVE IInv'
<1> DEFINE l == IF signal[number[c]] THEN "printing" ELSE "blocked"
<1>1. /\ cpc[c] = "waiting" /\ version = "semaphores" /\ Live(c)
      /\ cpc' = [cpc EXCEPT ![c] = l] /\ signal' = [signal EXCEPT ![number[c]] = FALSE]
      /\ UNCHANGED <<version, parentVars, number, opened, exists>>
  BY DEF WaitSemaphore, Live
<1>2. signal' \in [Child -> BOOLEAN] /\ number[c] \in Child
      /\ \A s \in Child : signal'[s] = (signal[s] /\ s # number[c])
  BY <1>1 DEF IInv, TypeOK, Numbered
<1>3. /\ TypeOK' /\ Places' /\ Handles' /\ AllClosed'
      /\ cpc'[c] = l /\ \A d \in Child : d # c => cpc'[d] = cpc[d]
  BY <1>1, <1>2, ChildMoves DEF parentVars
<1>4. Turns'
  <2>1. CASE signal[number[c]]
    <3>1. ppc = "wait" /\ number[c] = Slot /\ processes[Slot] = c
      BY <1>1, <2>1, SignalOfTurn
    <3>2. (\A s \in Child : ~signal'[s]) /\ \A d \in Child : ~Printing(d)
      BY <1>1, <1>2, <2>1, <3>1 DEF IInv, Turns
    <3>3. \A d \in Child : Printing(d)' => d = c
      BY <1>3, <3>2 DEF Printing
    <3>4. QED
      BY <1>1, <3>1, <3>2, <3>3 DEF Turns, Waiting, Slot, parentVars
  <2>2. CASE ~signal[number[c]]
    <3>1. \A d \in Child : Printing(d)' => Printing(d) /\ d # c
      BY <1>3, <2>2 DEF Printing
    <3>2. \A s \in Child : signal'[s] => signal[s]
      BY <1>2
    <3>3. QED
      BY <1>1, <3>1, <3>2 DEF IInv, Turns, Waiting, Slot, parentVars
  <2>3. QED
    BY <2>1, <2>2
<1>5. QED
  BY <1>3, <1>4 DEF IInv

LEMMA PrintKeeps ==
  ASSUME IInv, NEW c \in Child, PrintLine(c) \/ print_by_char(c) \/ SeeOwnReset(c) PROVE IInv'
<1> DEFINE l == cpc'[c]
<1>1. /\ cpc[c] \in {"printing", "polling"} /\ Live(c) /\ cpc' = [cpc EXCEPT ![c] = l]
      /\ l = (IF cpc[c] = "printing" THEN "finishing" ELSE "waiting")
      /\ UNCHANGED <<version, parentVars, number, opened, objects>>
  BY DEF PrintLine, print_by_char, SeeOwnReset, Live, IInv, TypeOK
<1>2. signal' \in [Child -> BOOLEAN]
  BY <1>1 DEF IInv, TypeOK, objects
<1>3. TypeOK' /\ Places' /\ Handles' /\ AllClosed' /\ \A d \in Child : d # c => cpc'[d] = cpc[d]
  <2> HIDE DEF l
  <2>1. QED
    BY <1>1, <1>2, ChildMoves DEF parentVars, objects
<1>4. Turns'
  <2>1. \A d \in Child : Printing(d)' <=> Printing(d)
    BY <1>1, <1>3 DEF Printing
  <2>2. QED
    BY <1>1, <2>1 DEF IInv, Turns, Waiting, Slot, parentVars, objects
<1>5. QED
  BY <1>3, <1>4 DEF IInv

LEMMA ResetEventKeeps ==
  ASSUME IInv, Numbered, NEW c \in Child, ResetEvent(c) PROVE IInv'
<1>1. /\ cpc[c] = "finishing" /\ version = "events" /\ Live(c) /\ cpc' = [cpc EXCEPT ![c] = "polling"]
      /\ signal' = [signal EXCEPT ![number[c]] = @ /\ ~opened[c]]
      /\ UNCHANGED <<version, parentVars, number, opened, exists>>
  BY DEF ResetEvent, Live
<1>2. /\ signal' \in [Child -> BOOLEAN] /\ number[c] \in Child
      /\ \A s \in Child : signal'[s] = (signal[s] /\ ~(s = number[c] /\ opened[c]))
  BY <1>1 DEF IInv, TypeOK, Numbered
<1>3. /\ TypeOK' /\ Places' /\ Handles' /\ AllClosed'
      /\ cpc'[c] = "polling" /\ \A d \in Child : d # c => cpc'[d] = cpc[d]
  BY <1>1, <1>2, ChildMoves DEF parentVars
<1>4. Turns'
  <2>1. \A d \in Child : Printing(d)' => Printing(d) /\ d # c
    BY <1>3 DEF Printing
  <2>2. CASE opened[c]
    <3>1. Printing(c) /\ \A d \in Child : Printing(d) /\ opened[d] => d = c
      BY <1>1, <2>2 DEF IInv, Turns, Printing
    <3>2. \A d \in Child : ~(Printing(d)' /\ opened[d])
      BY <2>1, <3>1
    <3>3. QED
      BY <1>1, <1>2, <3>2 DEF IInv, Turns, Waiting, Slot, parentVars
  <2>3. CASE ~opened[c]
    <3>1. signal' = signal
      BY <1>1, <2>3 DEF IInv, TypeOK
    <3>2. QED
      BY <1>1, <2>1, <3>1 DEF IInv, Turns, Waiting, Slot, parentVars
  <2>4. QED
    BY <2>2, <2>3
<1>5. QED
  BY <1>3, <1>4 DEF IInv

LEMMA ReleaseSemaphoreKeeps ==
  ASSUME IInv, Numbered, NEW c \in Child, ReleaseSemaphore(c) PROVE IInv'
<1>1. /\ cpc[c] = "finishing" /\ version = "semaphores" /\ Live(c) /\ Printing(c)
      /\ UNCHANGED <<version, processes, current, started, handle, number, opened, exists>>
  BY DEF ReleaseSemaphore, Live, Printing
<1>2. opened[c] /\ \A d \in Child : Printing(d) => opened[d]
  BY <1>1 DEF IInv, Handles, Printing, Live
<1>3. /\ Waiting /\ number[c] = Slot /\ processes[Slot] = c
      /\ \A d \in Child : Printing(d) => d = c
      /\ \A s \in Child : ~signal[s]
  BY <1>1, <1>2 DEF IInv, Turns
<1>4. number[c] \in Child
  BY <1>1 DEF Numbered
<1>5. /\ cpc' = [cpc EXCEPT ![c] = "waiting"]
      /\ \/ ppc = "blocked" /\ ppc' = "keys" /\ UNCHANGED signal
         \/ ppc = "wait" /\ ppc' = "wait" /\ signal' = [signal EXCEPT ![Slot] = TRUE]
  BY <1>3, <1>4 DEF ReleaseSemaphore, Waiting
<1>6. signal' \in [Child -> BOOLEAN] /\ \A s \in Child : signal'[s] => s = Slot /\ ppc' = "wait"
  BY <1>3, <1>5 DEF IInv, TypeOK
<1>7. /\ TypeOK' /\ Places' /\ Handles' /\ AllClosed'
      /\ cpc'[c] = "waiting" /\ \A d \in Child : d # c => cpc'[d] = cpc[d]
  BY <1>1, <1>5, <1>6, ChildMoves
<1>8. Turns'
  <2>1. \A d \in Child : ~Printing(d)'
    BY <1>3, <1>7 DEF Printing
  <2>2. QED
    BY <1>1, <1>6, <2>1 DEF Turns, Slot
<1>9. QED
  BY <1>7, <1>8 DEF IInv

LEMMA VanishKeeps ==
  ASSUME IInv, NEW s \in Child, Vanish(s) PROVE IInv'
<1>1. /\ ~Held(s) /\ exists' = [exists EXCEPT ![s] = FALSE] /\ signal' = [signal EXCEPT ![s] = FALSE]
      /\ UNCHANGED <<version, parentVars, childVars>>
  BY DEF Vanish
<1>2. /\ exists' \in [Child -> BOOLEAN] /\ signal' \in [Child -> BOOLEAN]
      /\ \A t \in Child : t # s => exists'[t] = exists[t] /\ signal'[t] = signal[t]
      /\ ~signal'[s]
  BY <1>1 DEF IInv, TypeOK
<1>3. TypeOK'
  BY <1>1, <1>2 DEF IInv, TypeOK, Slot, parentVars, childVars
<1>4. Places' /\ AllClosed'
  BY <1>1 DEF IInv, Places, Alone, AllClosed, Pending, InList, Live, NewSlot, parentVars, childVars
<1>5. Handles'
  <2>1. Len(processes) <= started /\ DOMAIN processes = 1..Len(processes) /\ Len(processes) \in Nat
        /\ started \in Nat /\ started <= MaxStarts
    BY Typed DEF IInv, Places
  <2>2. ASSUME NEW t \in DOMAIN processes PROVE t \in Child /\ exists'[t] = exists[t]
    <3>1. t \in Child /\ t <= Len(processes)
      BY <2>1
    <3>2. t # s
      BY <1>1, <3>1 DEF Held
    <3>3. QED
      BY <1>2, <3>1, <3>2
  <2>3. ppc = "push" \/ (ppc = "spawn" /\ handle) => exists'[NewSlot] = exists[NewSlot]
    <3>1. ppc = "push" \/ (ppc = "spawn" /\ handle) => s # NewSlot
      BY <1>1 DEF Held
    <3>2. ppc = "push" \/ (ppc = "spawn" /\ handle) => NewSlot \in Child
      <4>1. ppc = "push" \/ ppc = "spawn" => Len(processes) < MaxStarts
        <5>1. ppc = "spawn" => started < MaxStarts
          BY DEF IInv, Places
        <5>2. ppc = "push" => Len(processes) < started
          BY DEF IInv, Places, Pending
        <5>3. QED
          BY <2>1, <5>1, <5>2
      <4>2. QED
        BY <2>1, <4>1 DEF NewSlot
    <3>3. QED
      BY <1>2, <3>1, <3>2
  <2>4. QED
    BY <1>1, <2>2, <2>3 DEF IInv, Handles, InList, Live, NewSlot, parentVars, childVars
<1>6. Turns'
  <2>1. ASSUME NEW c \in Child, Printing(c), opened[c] PROVE s # number[c]
    BY <1>1, <2>1 DEF Held, Printing, Live
  <2>2. QED
    BY <1>1, <1>2, <2>1 DEF IInv, Turns, Printing, Waiting, Slot, parentVars, childVars
<1>7. QED
  BY <1>3, <1>4, <1>5, <1>6 DEF IInv

-----------------------------------------------------------------------------
(* The theorems *)

LEMMA ParentKeeps ==
  ASSUME IInv, Keys \/ ParentStep PROVE IInv'
  BY PlainKeeps, QuitKeeps, RemoveKeeps, CreateKeeps, SpawnKeeps, PushKeeps, SetEventKeeps,
     ReleaseTurnKeeps, WaitTurnKeeps DEF Keys, ParentStep

LEMMA ChildKeeps ==
  ASSUME IInv, Numbered, NEW c \in Child, ChildStep(c) \/ Vanish(c) PROVE IInv'
  BY OpenKeeps, WaitEventKeeps, WaitSemaphoreKeeps, PrintKeeps, ResetEventKeeps,
     ReleaseSemaphoreKeeps, VanishKeeps DEF ChildStep

LEMMA IdleKeeps ==
  ASSUME IInv, UNCHANGED vars PROVE IInv'
<1>1. UNCHANGED <<version, ppc, processes, current, started, handle, cpc, number, opened, exists, signal>>
  BY DEF vars, parentVars, childVars, objects
<1>2. TypeOK' /\ AllClosed'
  BY <1>1 DEF IInv, TypeOK, AllClosed, Slot, Live
<1>3. Places' /\ Handles'
  BY <1>1 DEF IInv, Places, Alone, Handles, Pending, InList, Live, NewSlot
<1>4. Turns'
  BY <1>1 DEF IInv, Turns, Printing, Waiting, Slot
<1>5. QED
  BY <1>2, <1>3, <1>4 DEF IInv

\* Steps that start no child.
LEMMA NobodyStarts ==
  ASSUME TypeOK, [Next]_vars, ~SpawnAfterEvent, ~SpawnFirst
  PROVE  UNCHANGED number /\ \A c \in Child : Live(c)' => Live(c)
<1> USE DEF TypeOK, Live
<1>1. CASE KeyAdd \/ NoKey \/ CreateEvent \/ SpawnAfterEventFails \/ CreateSemaphore \/ Push \/ NoTurn
           \/ SetEvent \/ SeeReset \/ WaitTurn \/ Poll \/ Over \/ UNCHANGED vars
  BY <1>1 DEF KeyAdd, NoKey, CreateEvent, SpawnAfterEventFails, CreateSemaphore, Push, NoTurn,
     SetEvent, SeeReset, WaitTurn, Poll, Over, vars, childVars
<1>2. CASE KeyQuit \/ RemoveProcess \/ RemoveHandlePair \/ SpawnFirstFails \/ GiveUp
  BY <1>2 DEF KeyQuit, RemoveProcess, RemoveHandlePair, SpawnFirstFails, GiveUp, CloseAll,
     CloseFrom, Terminated
<1>3. CASE ReleaseTurn
  BY <1>3 DEF ReleaseTurn, CloseAll, CloseFrom, Terminated, Blocked
<1>4. ASSUME NEW c \in Child, ChildStep(c) \/ Vanish(c) PROVE UNCHANGED number /\ \A d \in Child : Live(d)' => Live(d)
  BY <1>4 DEF ChildStep, OpenEvent, OpenSemaphore, WaitEvent, WaitSemaphore, PrintLine, print_by_char,
     ResetEvent, SeeOwnReset, ReleaseSemaphore, Vanish, childVars
<1>5. QED
  BY <1>1, <1>2, <1>3, <1>4 DEF Next, Keys, ParentStep

LEMMA NumberedKept ==
  ASSUME IInv, Numbered, [Next]_vars PROVE Numbered'
<1>1. CASE ~SpawnAfterEvent /\ ~SpawnFirst
  BY <1>1, NobodyStarts DEF IInv, Numbered
<1>2. CASE SpawnAfterEvent \/ SpawnFirst
  <2>1. /\ started + 1 \in Child /\ NewSlot \in Child
    <3>1. ppc = "spawn" /\ started < MaxStarts /\ Len(processes) <= started
      BY <1>2 DEF SpawnAfterEvent, SpawnFirst, IInv, Places
    <3>2. QED
      BY <3>1, Typed DEF IInv, NewSlot
  <2>2. \A c \in Child : c # started + 1 => (Live(c)' <=> Live(c)) /\ number'[c] = number[c]
    BY <1>2 DEF SpawnAfterEvent, SpawnFirst, Start, Live, IInv, TypeOK
  <2>3. number'[started + 1] = NewSlot
    BY <1>2, <2>1 DEF SpawnAfterEvent, SpawnFirst, Start, IInv, TypeOK
  <2>4. QED
    BY <2>1, <2>2, <2>3 DEF Numbered
<1>3. QED
  BY <1>1, <1>2

LEMMA Invariance == Spec => [](IInv /\ Numbered)
<1>1. Init => IInv /\ Numbered
  BY InitPlaces DEF Init, Numbered, Live
<1>2. IInv /\ Numbered /\ [Next]_vars => IInv' /\ Numbered'
  <2> SUFFICES ASSUME IInv, Numbered, [Next]_vars PROVE IInv' /\ Numbered'
    OBVIOUS
  <2>1. CASE Poll \/ Over \/ UNCHANGED vars
    BY <2>1, IdleKeeps, NumberedKept DEF Poll, Over
  <2>2. QED
    BY <2>1, ParentKeeps, ChildKeeps, NumberedKept DEF Next
<1>3. QED
  BY <1>1, <1>2, PTL DEF Spec

\* Every variable keeps its type: in particular a turn is given to a place in the list.
THEOREM TypesKept == Spec => []TypeOK
<1>1. IInv => TypeOK
  BY DEF IInv
<1>2. QED
  BY <1>1, Invariance, PTL

\* A child of the list, and one that will be in it, is not terminated; with events nobody
\* sleeps in the system, and no child exits.
Alive ==
  /\ \A i \in DOMAIN processes : cpc[processes[i]] \notin {"none", "dead"}
  /\ Pending => cpc[started] \notin {"none", "dead"}
  /\ version = "events" => \A c \in Child : cpc[c] \notin {"blocked", "exited"}

\* A semaphore that the parent has released and that is not free is with the child.
Taken ==
  /\ version = "semaphores" /\ Waiting /\ ~signal[Slot] => Printing(processes[Slot])
  /\ ppc = "blocked" => version = "semaphores"

\* The places of the list.
LEMMA ListFacts ==
  ASSUME IInv
  PROVE  /\ processes \in Seq(Child) /\ Len(processes) \in Nat /\ Len(processes) <= MaxStarts
         /\ DOMAIN processes = 1..Len(processes)
         /\ \A i \in DOMAIN processes :
              /\ i \in Child /\ processes[i] \in Child
              /\ processes[i] <= started /\ number[processes[i]] = i
<1>1. /\ processes \in Seq(Child) /\ DOMAIN processes = 1..Len(processes)
      /\ Len(processes) \in Nat /\ started \in Nat /\ started <= MaxStarts
  BY Typed DEF IInv
<1>2. /\ Len(processes) <= started
      /\ \A i \in DOMAIN processes : processes[i] <= started /\ number[processes[i]] = i
  BY DEF IInv, Places
<1>3. \A i \in DOMAIN processes : processes[i] \in Child
  BY <1>1, ElementOfSeq
<1>4. QED
  BY <1>1, <1>2, <1>3

\* Steps that neither end nor start a child, nor change the list.
LEMMA AliveFrame ==
  ASSUME IInv, Alive, UNCHANGED <<version, processes, started>>, Pending' => Pending,
         \A c \in Child : cpc'[c] # cpc[c] =>
           /\ cpc'[c] \notin {"none", "dead"}
           /\ version = "events" => cpc'[c] \notin {"blocked", "exited"}
  PROVE  Alive'
<1>1. \A i \in DOMAIN processes : processes[i] \in Child
  BY ListFacts
<1>2. Pending => started \in Child
  BY DEF IInv, Places
<1>3. QED
  BY <1>1, <1>2 DEF Alive

LEMMA ChildAlive ==
  ASSUME IInv, Alive, NEW c \in Child, ChildStep(c) \/ Vanish(c) PROVE Alive'
<1>1. /\ UNCHANGED <<version, processes, started>>
      /\ ppc' = ppc \/ ppc' = "keys"
  BY DEF ChildStep, OpenEvent, OpenSemaphore, WaitEvent, WaitSemaphore, PrintLine, print_by_char,
     ResetEvent, SeeOwnReset, ReleaseSemaphore, Vanish, parentVars
<1>2. PICK Labels : cpc \in [Child -> Labels]
  BY DEF IInv, TypeOK
<1>3. Pending' => Pending
  BY <1>1 DEF Pending
<1>4. \A d \in Child : cpc'[d] # cpc[d] =>
        /\ cpc'[d] \notin {"none", "dead"}
        /\ version = "events" => cpc'[d] \notin {"blocked", "exited"}
  <2>1. CASE OpenEvent(c)
    BY <1>2, <2>1 DEF OpenEvent
  <2>2. CASE OpenSemaphore(c)
    BY <1>2, <2>2 DEF OpenSemaphore
  <2>3. CASE WaitEvent(c)
    BY <1>2, <2>3 DEF WaitEvent
  <2>4. CASE WaitSemaphore(c)
    BY <1>2, <2>4 DEF WaitSemaphore
  <2>5. CASE PrintLine(c)
    BY <1>2, <2>5 DEF PrintLine
  <2>6. CASE print_by_char(c)
    BY <1>2, <2>6 DEF print_by_char
  <2>7. CASE ResetEvent(c)
    BY <1>2, <2>7 DEF ResetEvent
  <2>8. CASE SeeOwnReset(c)
    BY <1>2, <2>8 DEF SeeOwnReset
  <2>9. CASE ReleaseSemaphore(c)
    BY <1>2, <2>9 DEF ReleaseSemaphore
  <2>10. CASE Vanish(c)
    BY <2>10 DEF Vanish, childVars
  <2>11. QED
    BY <2>1, <2>2, <2>3, <2>4, <2>5, <2>6, <2>7, <2>8, <2>9, <2>10 DEF ChildStep
<1>5. QED
  BY <1>1, <1>3, <1>4, AliveFrame

\* The lists that are closed are empty afterwards.
LEMMA CloseAllAlive ==
  ASSUME IInv, Alive, CloseAll, ppc' \in {"done", "failed"}, UNCHANGED version PROVE Alive'
<1>1. DOMAIN processes' = {} /\ ~Pending'
  <2>1. processes' = <<>>
    BY DEF CloseAll, CloseFrom
  <2>2. DOMAIN processes' = {}
    BY <2>1
  <2>3. ~Pending'
    BY DEF Pending
  <2>4. QED
    BY <2>2, <2>3
<1>2. \A c \in Child : cpc'[c] \in {cpc[c], "dead"}
  BY DEF CloseAll, CloseFrom, Terminated
<1>3. QED
  BY <1>1, <1>2 DEF Alive

LEMMA RemoveAlive ==
  ASSUME IInv, Alive, RemoveProcess \/ RemoveHandlePair PROVE Alive'
<1>1. /\ processes # <<>> /\ processes' = Rest /\ cpc' = Terminated({Last})
      /\ ~Pending' /\ UNCHANGED version
  BY DEF RemoveProcess, RemoveHandlePair, Pending
<1>2. /\ processes \in Seq(Child) /\ DOMAIN processes = 1..Len(processes) /\ Len(processes) \in Nat
      /\ Len(processes) # 0
  BY <1>1, Typed DEF IInv
<1>3. ASSUME NEW i \in DOMAIN processes'
      PROVE  processes'[i] = processes[i] /\ i \in DOMAIN processes /\ i # Len(processes)
  BY <1>1, <1>2 DEF Rest
<1>4. \A c \in Child : cpc'[c] = IF c = Last /\ Live(c) THEN "dead" ELSE cpc[c]
  BY <1>1 DEF Terminated
<1>5. ASSUME NEW i \in DOMAIN processes' PROVE cpc'[processes'[i]] = cpc[processes[i]]
  <2>1. number[processes[i]] = i /\ number[Last] = Len(processes) /\ processes[i] \in Child
    BY <1>2, <1>3 DEF IInv, Places, Last
  <2>2. processes[i] # Last
    BY <1>3, <2>1
  <2>3. QED
    BY <1>3, <1>4, <2>1, <2>2
<1>6. QED
  BY <1>1, <1>3, <1>4, <1>5 DEF Alive

LEMMA SpawnAlive ==
  ASSUME IInv, Alive, SpawnAfterEvent \/ SpawnFirst PROVE Alive'
<1>1. /\ ppc = "spawn" /\ started' = started + 1 /\ cpc' = [cpc EXCEPT ![started + 1] = "starting"]
      /\ UNCHANGED <<version, processes>>
  BY DEF SpawnAfterEvent, SpawnFirst, Start
<1>2. started + 1 \in Child /\ \A i \in DOMAIN processes : processes[i] \in Child /\ processes[i] # started + 1
  <2>1. started < MaxStarts /\ started \in Nat
    BY <1>1, Typed DEF IInv, Places
  <2>2. \A i \in DOMAIN processes : processes[i] \in Child /\ processes[i] <= started
    BY ListFacts
  <2>3. QED
    BY <2>1, <2>2
<1>3. cpc'[started + 1] = "starting" /\ \A c \in Child : c # started + 1 => cpc'[c] = cpc[c]
  BY <1>1, <1>2 DEF IInv, TypeOK
<1>4. QED
  BY <1>1, <1>2, <1>3 DEF Alive

LEMMA PushAlive ==
  ASSUME IInv, Alive, Push PROVE Alive'
<1>1. /\ Pending /\ ~Pending' /\ processes' = Append(processes, started) /\ UNCHANGED <<version, cpc>>
  BY DEF Push, Pending, childVars
<1>2. processes \in Seq(Child) /\ started \in Child
  BY <1>1, Typed DEF IInv, Places
<1>3. \A i \in DOMAIN processes' :
        processes'[i] = started \/ (i \in DOMAIN processes /\ processes'[i] = processes[i])
  BY <1>1, <1>2
<1>4. QED
  BY <1>1, <1>3 DEF Alive

LEMMA ParentAlive ==
  ASSUME IInv, Alive, Keys \/ ParentStep PROVE Alive'
<1>1. CASE NoKey \/ KeyAdd \/ CreateEvent \/ SpawnAfterEventFails \/ CreateSemaphore \/ NoTurn
           \/ SetEvent \/ SeeReset \/ WaitTurn
  <2>1. /\ UNCHANGED <<version, processes, started, cpc>>
        /\ Pending' => Pending
    BY <1>1 DEF NoKey, KeyAdd, CreateEvent, SpawnAfterEventFails, CreateSemaphore, NoTurn, SetEvent,
       SeeReset, WaitTurn, childVars, Pending
  <2>2. QED
    BY <2>1, AliveFrame
<1>2. CASE KeyQuit \/ SpawnFirstFails \/ GiveUp
  BY <1>2, CloseAllAlive DEF KeyQuit, SpawnFirstFails, GiveUp
<1>3. CASE ReleaseTurn
  <2>1. CASE CloseAll /\ ppc' = "failed"
    BY <1>3, <2>1, CloseAllAlive DEF ReleaseTurn
  <2>2. CASE ppc' = "wait" /\ UNCHANGED processes
    <3>1. UNCHANGED cpc \/ \E c \in Child : cpc' = [cpc EXCEPT ![c] = "printing"]
      BY <1>3, <2>2 DEF ReleaseTurn, Blocked
    <3>2. UNCHANGED <<version, started>> /\ ~Pending'
      BY <1>3, <2>2 DEF ReleaseTurn, Pending
    <3>3. QED
      <4>1. \A c \in Child : cpc'[c] # cpc[c] => cpc'[c] = "printing"
        BY <3>1 DEF IInv, TypeOK
      <4>2. QED
        BY <2>2, <3>2, <4>1, AliveFrame
  <2>3. QED
    BY <1>3, <2>1, <2>2 DEF ReleaseTurn
<1>4. QED
  BY <1>1, <1>2, <1>3, RemoveAlive, SpawnAlive, PushAlive DEF Keys, ParentStep

\* What the parent releases goes to the child that waits for it, or is free.
LEMMA ParentTaken ==
  ASSUME IInv, Taken, Keys \/ ParentStep PROVE Taken'
<1>1. CASE ReleaseTurn
  <2>1. SUFFICES ASSUME ppc' = "wait", ~signal'[Slot'] PROVE cpc'[processes'[Slot']] = "printing"
    <3>1. ppc' \in {"wait", "failed"}
      BY <1>1 DEF ReleaseTurn
    <3>2. QED
      BY <3>1 DEF Taken, Waiting, Printing
  <2>2. ppc = "turn" /\ processes # <<>> /\ current' = Successor(current) /\ UNCHANGED <<processes, number>>
    BY <1>1, <2>1 DEF ReleaseTurn
  <2>3. Slot' \in DOMAIN processes /\ Slot' \in Child
    <3>1. Slot' \in DOMAIN processes
      BY <2>2, SlotListed DEF IInv
    <3>2. QED
      BY <3>1, ListFacts
  <2>4. PICK c \in Blocked(Slot') : cpc' = [cpc EXCEPT ![c] = "printing"]
    <3>1. \/ \E c \in Blocked(Slot') : cpc' = [cpc EXCEPT ![c] = "printing"]
          \/ signal' = [signal EXCEPT ![Slot'] = TRUE]
      BY <1>1, <2>1 DEF ReleaseTurn, Slot
    <3>2. signal' # [signal EXCEPT ![Slot'] = TRUE]
      BY <2>1, <2>3 DEF IInv, TypeOK
    <3>3. QED
      BY <3>1, <3>2
  <2>5. c \in Child /\ Live(c) /\ number[c] = Slot'
    BY <2>4 DEF Blocked, Live
  <2>6. processes[Slot'] = c
    BY <2>2, <2>5, AllListed DEF InList
  <2>7. QED
    BY <2>2, <2>4, <2>5, <2>6 DEF IInv, TypeOK
<1>2. CASE WaitTurn
  <2>1. SUFFICES ASSUME ppc' = "blocked" PROVE Taken'
    <3>1. ppc' \in {"keys", "blocked"}
      BY <1>2 DEF WaitTurn
    <3>2. QED
      BY <3>1 DEF Taken, Waiting
  <2>2. /\ ppc = "wait" /\ version = "semaphores" /\ ~signal[Slot]
        /\ UNCHANGED <<version, processes, cpc, current>>
    BY <1>2, <2>1 DEF WaitTurn, childVars
  <2>3. QED
    BY <2>2 DEF Taken, Waiting, Printing, Slot
<1>3. CASE \/ KeyAdd \/ RemoveProcess \/ RemoveHandlePair \/ KeyQuit \/ NoKey \/ CreateEvent
           \/ SpawnAfterEvent \/ SpawnAfterEventFails \/ SpawnFirst \/ SpawnFirstFails
           \/ CreateSemaphore \/ Push \/ GiveUp \/ NoTurn \/ SeeReset \/ SetEvent
  <2>1. ppc' # "blocked" /\ (ppc' # "wait" \/ version' = "events")
    BY <1>3 DEF KeyAdd, RemoveProcess, RemoveHandlePair, KeyQuit, NoKey, CreateEvent,
       SpawnAfterEvent, SpawnAfterEventFails, SpawnFirst, SpawnFirstFails, CreateSemaphore, Push,
       GiveUp, NoTurn, SeeReset, SetEvent
  <2>2. QED
    BY <2>1 DEF Taken, Waiting
<1>4. QED
  BY <1>1, <1>2, <1>3 DEF Keys, ParentStep

\* What a child takes it prints with, and what it gives back the parent has or is free.
LEMMA ChildTaken ==
  ASSUME IInv, Numbered, Taken, NEW c \in Child, ChildStep(c) \/ Vanish(c) PROVE Taken'
<1>0. UNCHANGED <<version, processes, current>> /\ (ppc' = ppc \/ ppc' = "keys")
  BY DEF ChildStep, OpenEvent, OpenSemaphore, WaitEvent, WaitSemaphore, PrintLine, print_by_char,
     ResetEvent, SeeOwnReset, ReleaseSemaphore, Vanish, parentVars
<1> SUFFICES ASSUME version = "semaphores", Waiting, Waiting', ~signal'[Slot]
             PROVE  cpc'[processes[Slot]] \in {"printing", "finishing"}
  <2>1. UNCHANGED <<version, Slot>> /\ (ppc' = "blocked" => ppc = "blocked")
    BY <1>0 DEF Slot
  <2>2. Waiting' => Waiting
    BY <1>0 DEF Waiting
  <2>3. QED
    BY <1>0, <2>1, <2>2 DEF Taken, Printing
<1> DEFINE d == processes[Slot]
<1>1. Slot \in DOMAIN processes /\ Slot \in Child /\ d \in Child /\ Slot <= Len(processes)
  <2>1. Slot \in DOMAIN processes
    BY DEF Waiting, IInv, TypeOK
  <2>2. QED
    BY <2>1, ListFacts
<1>2. CASE Vanish(c)
  <2>1. c # Slot /\ UNCHANGED cpc
    BY <1>1, <1>2 DEF Vanish, Held, childVars
  <2>2. ~signal[Slot]
    BY <1>1, <1>2, <2>1 DEF Vanish, IInv, TypeOK
  <2>3. QED
    BY <1>0, <2>1, <2>2 DEF Taken, Printing
<1>3. CASE OpenSemaphore(c) \/ SeeOwnReset(c)
  <2>1. cpc[c] \in {"starting", "polling"} /\ \A e \in Child : e # c => cpc'[e] = cpc[e]
    BY <1>3 DEF OpenSemaphore, SeeOwnReset, IInv, TypeOK
  <2>2. ~signal[Slot]
    BY <1>3 DEF OpenSemaphore, SeeOwnReset, objects
  <2>3. Printing(d)
    BY <2>2 DEF Taken
  <2>4. QED
    BY <1>0, <1>1, <2>1, <2>3 DEF Printing
<1>4. CASE WaitSemaphore(c)
  <2>1. /\ cpc[c] = "waiting" /\ signal' = [signal EXCEPT ![number[c]] = FALSE]
        /\ cpc' = [cpc EXCEPT ![c] = IF signal[number[c]] THEN "printing" ELSE "blocked"]
        /\ UNCHANGED number
    BY <1>4 DEF WaitSemaphore
  <2>2. Live(c) /\ number[c] \in Child
    BY <2>1 DEF Live, Numbered
  <2>3. InList(c)
    BY <2>2, AllListed DEF Waiting
  <2>4. CASE signal[Slot]
    <3>1. number[c] = Slot
      BY <1>1, <2>1, <2>2, <2>4 DEF IInv, TypeOK
    <3>2. d = c
      BY <2>3, <3>1 DEF InList
    <3>3. QED
      BY <1>0, <2>1, <2>4, <3>1, <3>2 DEF Printing, IInv, TypeOK
  <2>5. CASE ~signal[Slot]
    <3>1. Printing(d) /\ d # c
      BY <2>1, <2>5 DEF Taken, Printing
    <3>2. QED
      BY <1>0, <1>1, <2>1, <3>1 DEF Printing, IInv, TypeOK
  <2>6. QED
    BY <2>4, <2>5
<1>5. CASE print_by_char(c)
  <2>1. ~signal[Slot] /\ cpc' = [cpc EXCEPT ![c] = "finishing"]
    BY <1>5 DEF print_by_char, objects
  <2>2. QED
    BY <1>0, <1>1, <2>1 DEF Taken, Printing, IInv, TypeOK
<1>6. CASE ReleaseSemaphore(c)
  <2>1. cpc[c] = "finishing" /\ Live(c) /\ Printing(c)
    BY <1>6 DEF ReleaseSemaphore, Live, Printing
  <2>2. opened[c] /\ number[c] \in Child
    BY <2>1, AllListed DEF Waiting, Numbered
  <2>3. number[c] = Slot
    BY <2>1, <2>2 DEF IInv, Turns
  <2>4. signal' = [signal EXCEPT ![Slot] = TRUE]
    BY <1>6, <2>3 DEF ReleaseSemaphore, Waiting
  <2>5. QED
    BY <1>1, <2>4 DEF IInv, TypeOK
<1>7. CASE OpenEvent(c) \/ WaitEvent(c) \/ PrintLine(c) \/ ResetEvent(c)
  BY <1>7 DEF OpenEvent, WaitEvent, PrintLine, ResetEvent
<1>8. QED
  BY <1>2, <1>3, <1>4, <1>5, <1>6, <1>7 DEF ChildStep

\* The parent waits for an event that is set, which the child of that turn can see, or for a
\* semaphore that this child has.
LEMMA TurnUsed == IInv /\ Alive /\ Taken => NoStandstill
<1> DEFINE d == processes[Slot]
<1> SUFFICES ASSUME IInv, Alive, Taken, ~ParentCanGo, ppc \notin {"done", "failed"}
             PROVE  ChildCanGo(d) \/ (version = "events" /\ cpc[d] = "polling")
  BY DEF NoStandstill
<1>1. /\ Waiting /\ Slot \in DOMAIN processes /\ d \in Child /\ number[d] = Slot
      /\ version \in {"events", "semaphores"}
  <2>1. Waiting /\ Slot \in DOMAIN processes
    BY DEF ParentCanGo, Waiting, IInv, TypeOK
  <2>2. d \in Child /\ number[d] = Slot
    BY <2>1, ListFacts
  <2>3. QED
    BY <2>1, <2>2, Typed DEF IInv
<1>2. CASE version = "events"
  <2>1. cpc[d] \in {"starting", "waiting", "printing", "finishing", "polling"}
    BY <1>1, <1>2 DEF Alive, IInv, TypeOK
  <2>2. ppc = "wait" => signal[Slot]
    BY <1>2 DEF ParentCanGo
  <2>3. signal[Slot]
    BY <1>1, <1>2, <2>2 DEF Taken, Waiting
  <2>4. QED
    BY <1>1, <1>2, <2>1, <2>3 DEF ChildCanGo
<1>3. CASE version = "semaphores"
  <2>1. ppc = "blocked"
    BY <1>1, <1>3 DEF ParentCanGo, Waiting
  <2>2. Slot \in Child
    BY <1>1, ListFacts
  <2>3. ~signal[Slot]
    BY <2>1, <2>2 DEF IInv, Turns
  <2>4. Printing(d)
    BY <1>1, <1>3, <2>3 DEF Taken
  <2>5. QED
    BY <2>4 DEF Printing, ChildCanGo
<1>4. QED
  BY <1>1, <1>2, <1>3

\* The right to print is in one place, whatever is pressed and whichever call fails: the
\* events set and reset, and the semaphores released and taken back, never let two
\* children print.  And the parent never waits for a child that cannot go on, except with
\* events for one that missed the moment in which its event was reset.
THEOREM RightInOnePlace == Spec => []TurnInUse
<1>1. Init => Alive /\ Taken
  BY DEF Init, Alive, Taken, Pending, Waiting
<1>2. IInv /\ Numbered /\ Alive /\ Taken /\ [Next]_vars => Alive' /\ Taken'
  <2> SUFFICES ASSUME IInv, Numbered, Alive, Taken, [Next]_vars PROVE Alive' /\ Taken'
    OBVIOUS
  <2>1. CASE Poll \/ Over \/ UNCHANGED vars
    <3>1. UNCHANGED <<version, ppc, processes, current, started, cpc, signal>>
      BY <2>1 DEF Poll, Over, vars, parentVars, childVars, objects
    <3>2. QED
      BY <3>1 DEF Alive, Taken, Pending, Waiting, Printing, Slot
  <2>2. CASE Keys \/ ParentStep
    BY <2>2, ParentAlive, ParentTaken
  <2>3. ASSUME NEW c \in Child, ChildStep(c) \/ Vanish(c) PROVE Alive' /\ Taken'
    BY <2>3, ChildAlive, ChildTaken
  <2>4. QED
    BY <2>1, <2>2, <2>3 DEF Next
<1>3. IInv /\ Alive /\ Taken => TurnInUse
  BY TurnUsed DEF IInv, Turns, InTurn, TurnInUse
<1>4. QED
  BY <1>1, <1>2, <1>3, Invariance, PTL DEF Spec

\* 'q' ends every child that was started, the one started last included.
THEOREM NobodyLeftBehind == Spec => []AllClosed
<1>1. IInv => AllClosed
  BY DEF IInv
<1>2. QED
  BY <1>1, Invariance, PTL

\* A child of the list does not print while the parent looks at the keyboard.
LEMMA ListedQuiet ==
  ASSUME IInv, ~Waiting, NEW c \in Child, Listed(c) PROVE cpc[c] # "printing"
<1>1. SUFFICES ASSUME cpc[c] = "printing" PROVE FALSE
  OBVIOUS
<1>2. InList(c) /\ Live(c) /\ Printing(c)
  BY <1>1 DEF Listed, InList, Live, Printing, IInv, Places
<1>3. version \in {"events", "semaphores"}
  BY Typed DEF IInv
<1>4. opened[c]
  BY <1>1, <1>2, <1>3 DEF IInv, Handles
<1>5. QED
  BY <1>2, <1>4, Quiet

LEMMA NotCut ==
  ASSUME IInv, Numbered, [Next]_vars, NEW c \in Child, cpc[c] = "printing"
  PROVE  cpc'[c] # "dead"
<1>1. CASE KeyQuit \/ SpawnFirstFails \/ GiveUp
  <2>1. ~Waiting /\ cpc' = Terminated({processes[i] : i \in 1..Len(processes)})
    BY <1>1 DEF KeyQuit, SpawnFirstFails, GiveUp, CloseAll, CloseFrom, Waiting
  <2>2. DOMAIN processes = 1..Len(processes)
    BY Typed DEF IInv
  <2>3. c \notin {processes[i] : i \in 1..Len(processes)}
    BY <2>1, <2>2, ListedQuiet, Zenon DEF Listed
  <2>4. QED
    BY <2>1, <2>3 DEF Terminated
<1>2. CASE RemoveProcess \/ RemoveHandlePair
  <2>1. ~Waiting /\ cpc' = Terminated({Last}) /\ processes # <<>>
    BY <1>2 DEF RemoveProcess, RemoveHandlePair, Waiting
  <2>2. Listed(Last)
    BY <2>1, Typed DEF IInv, Last, Listed
  <2>3. c # Last
    BY <2>1, <2>2, ListedQuiet
  <2>4. QED
    BY <2>1, <2>3 DEF Terminated
<1>3. CASE ReleaseTurn
  <2>1. ppc = "turn" /\ ppc' = "wait"
    BY <1>3, TurnIsGiven
  <2>2. UNCHANGED cpc \/ \E d \in Child : cpc' = [cpc EXCEPT ![d] = "printing"]
    BY <1>3, <2>1 DEF ReleaseTurn, Blocked
  <2>3. QED
    BY <2>2 DEF IInv, TypeOK
<1>4. CASE \E d \in Child : ChildStep(d) \/ Vanish(d)
  BY <1>4 DEF IInv, TypeOK, ChildStep, OpenEvent, OpenSemaphore, WaitEvent, WaitSemaphore, PrintLine,
     print_by_char, ResetEvent, SeeOwnReset, ReleaseSemaphore, Vanish, childVars
<1>5. CASE SpawnAfterEvent \/ SpawnFirst
  BY <1>5 DEF SpawnAfterEvent, SpawnFirst, Start, IInv, TypeOK
<1>6. CASE KeyAdd \/ NoKey \/ CreateEvent \/ SpawnAfterEventFails \/ CreateSemaphore \/ Push \/ NoTurn
           \/ SetEvent \/ SeeReset \/ WaitTurn \/ Poll \/ Over \/ UNCHANGED vars
  BY <1>6 DEF KeyAdd, NoKey, CreateEvent, SpawnAfterEventFails, CreateSemaphore, Push, NoTurn,
     SetEvent, SeeReset, WaitTurn, Poll, Over, vars, childVars
<1>7. QED
  BY <1>1, <1>2, <1>3, <1>4, <1>5, <1>6 DEF Next, Keys, ParentStep

\* close_process, close_handle_pair and those that close all never end a child inside its
\* line.
THEOREM LinesWhole == Spec => NoLineCut
<1>1. IInv /\ Numbered /\ [Next]_vars => \A c \in Child : cpc[c] = "printing" => cpc'[c] # "dead"
  BY NotCut
<1>2. QED
  BY <1>1, Invariance, PTL DEF Spec, NoLineCut

-----------------------------------------------------------------------------
(* The lines do not mix: refinement of LinePrinter *)

OneWriter == \A c, d \in Child : cpc[c] = "printing" /\ cpc[d] = "printing" => c = d

LEMMA OnePrints ==
  ASSUME IInv, NEW c \in Child, NEW d \in Child, cpc[c] = "printing", cpc[d] = "printing"
  PROVE  c = d
<1>1. Live(c) /\ Live(d) /\ Printing(c) /\ Printing(d)
  BY DEF Live, Printing
<1>2. version \in {"events", "semaphores"}
  BY Typed DEF IInv
<1>3. ASSUME NEW e \in Child, cpc[e] = "printing", ~opened[e] PROVE ~Waiting /\ ((Pending /\ e = started) \/ Alone(e))
  <2>1. ~InList(e) /\ Live(e)
    BY <1>2, <1>3 DEF IInv, Handles, Live
  <2>2. (Pending /\ e = started) \/ Alone(e)
    BY <2>1 DEF IInv, Places
  <2>3. QED
    BY <2>2 DEF Pending, Alone, Waiting
<1>4. ASSUME NEW e \in Child, cpc[e] = "printing", opened[e] PROVE Waiting /\ e = processes[Slot]
  BY <1>4 DEF IInv, Turns, Printing
<1>5. CASE opened[c] \/ opened[d]
  BY <1>3, <1>4, <1>5
<1>6. CASE ~opened[c] /\ ~opened[d]
  BY <1>1, <1>3, <1>6 DEF Alone
<1>7. QED
  BY <1>5, <1>6

\* The printer that LinePrinter sees.
WriterOf(f) == IF \E c \in Child : f[c] = "printing"
               THEN CHOOSE c \in Child : f[c] = "printing" ELSE NoChild

LEMMA WriterIs ==
  ASSUME NEW f, NEW c \in Child, f[c] = "printing", \A d \in Child : f[d] = "printing" => d = c
  PROVE  WriterOf(f) = c
  BY Zenon DEF WriterOf

LEMMA NoWriter ==
  ASSUME NEW f, \A d \in Child : f[d] # "printing" PROVE WriterOf(f) = NoChild
  BY DEF WriterOf

LEMMA SameWriter ==
  ASSUME TypeOK, OneWriter, OneWriter', \A c \in Child : cpc'[c] = "printing" <=> cpc[c] = "printing"
  PROVE  WriterOf(cpc') = WriterOf(cpc)
<1>1. CASE \E c \in Child : cpc[c] = "printing"
  <2>1. PICK c \in Child : cpc[c] = "printing"
    BY <1>1
  <2>2. \A d \in Child : cpc[d] = "printing" => d = c
    BY <2>1 DEF OneWriter
  <2>3. QED
    BY <2>1, <2>2, WriterIs
<1>2. CASE ~ \E c \in Child : cpc[c] = "printing"
  BY <1>2, NoWriter
<1>3. QED
  BY <1>1, <1>2

\* The four kinds of steps.
LEMMA RefinesLeave ==
  ASSUME TypeOK, OneWriter, OneWriter', \A c \in Child : cpc'[c] = "printing" <=> cpc[c] = "printing",
         \A c \in Child : Live(c)' => Live(c)
  PROVE  Abs!Next
<1>1. WriterOf(cpc') = WriterOf(cpc)
  BY SameWriter
<1>2. Abs!Leave
  BY <1>1 DEF Abs!Leave, WriterOf
<1>3. QED
  BY <1>2 DEF Abs!Next

LEMMA RefinesAdd ==
  ASSUME TypeOK, OneWriter, OneWriter', \A c \in Child : cpc'[c] = "printing" <=> cpc[c] = "printing",
         NEW n \in Child, ~Live(n), Live(n)', \A c \in Child : c # n => (Live(c)' <=> Live(c))
  PROVE  Abs!Next
<1>1. WriterOf(cpc') = WriterOf(cpc)
  BY SameWriter
<1>2. Abs!Add(n)
  BY <1>1 DEF Abs!Add, WriterOf
<1>3. QED
  BY <1>2 DEF Abs!Next

LEMMA RefinesBegin ==
  ASSUME TypeOK, OneWriter, OneWriter', NEW c \in Child, cpc[c] # "printing", Live(c), cpc' = [cpc EXCEPT ![c] = "printing"]
  PROVE  Abs!Next
<1>1. cpc'[c] = "printing" /\ \A d \in Child : d # c => cpc'[d] = cpc[d]
  BY DEF TypeOK
<1>2. \A d \in Child : cpc'[d] = "printing" => d = c
  BY <1>1 DEF OneWriter
<1>3. WriterOf(cpc') = c
  BY <1>1, <1>2, WriterIs
<1>4. WriterOf(cpc) = NoChild
  BY <1>1, <1>2, NoWriter
<1>5. \A d \in Child : Live(d)' <=> Live(d)
  BY <1>1 DEF Live
<1>6. Abs!Begin(c)
  BY <1>3, <1>4, <1>5 DEF Abs!Begin, WriterOf
<1>7. QED
  BY <1>6 DEF Abs!Next

LEMMA RefinesEnd ==
  ASSUME TypeOK, OneWriter, OneWriter', NEW c \in Child, cpc[c] = "printing", cpc' = [cpc EXCEPT ![c] = "finishing"]
  PROVE  Abs!Next
<1>1. cpc'[c] = "finishing" /\ \A d \in Child : d # c => cpc'[d] = cpc[d]
  BY DEF TypeOK
<1>2. \A d \in Child : cpc[d] = "printing" => d = c
  BY DEF OneWriter
<1>3. WriterOf(cpc) = c
  BY <1>2, WriterIs
<1>4. WriterOf(cpc') = NoChild
  BY <1>1, <1>2, NoWriter
<1>5. Live(c) /\ \A d \in Child : Live(d)' <=> Live(d)
  BY <1>1 DEF Live
<1>6. Abs!End(c)
  BY <1>3, <1>4, <1>5 DEF Abs!End, WriterOf
<1>7. QED
  BY <1>6 DEF Abs!Next

LEMMA Refines ==
  ASSUME IInv, Numbered, OneWriter, OneWriter', [Next]_vars PROVE Abs!Next \/ UNCHANGED Abs!vars
<1>0. TypeOK
  BY DEF IInv
<1>1. CASE SpawnAfterEvent \/ SpawnFirst
  <2>1. started + 1 \in Child /\ ~Live(started + 1)
    <3>1. ppc = "spawn" /\ started < MaxStarts /\ started \in Nat
      BY <1>1, Typed DEF SpawnAfterEvent, SpawnFirst, IInv, Places
    <3>2. started + 1 \in Child
      BY <3>1
    <3>3. ~InList(started + 1)
      BY <3>1, <3>2, Typed DEF IInv, Places, InList
    <3>4. QED
      BY <3>1, <3>2, <3>3 DEF IInv, Places, Pending, Alone
  <2>2. cpc' = [cpc EXCEPT ![started + 1] = "starting"]
    BY <1>1 DEF SpawnAfterEvent, SpawnFirst, Start
  <2>3. ASSUME NEW n \in Child, ~Live(n), cpc' = [cpc EXCEPT ![n] = "starting"] PROVE Abs!Next
    <3>1. cpc'[n] = "starting" /\ \A c \in Child : c # n => cpc'[c] = cpc[c]
      BY <1>0, <2>3 DEF TypeOK
    <3>2. Live(n)' /\ \A c \in Child : c # n => (Live(c)' <=> Live(c))
      BY <3>1 DEF Live
    <3>3. \A c \in Child : cpc'[c] = "printing" <=> cpc[c] = "printing"
      BY <2>3, <3>1 DEF Live
    <3>4. QED
      BY <1>0, <2>3, <3>2, <3>3, RefinesAdd
  <2>4. QED
    BY <2>1, <2>2, <2>3
<1>2. CASE ~SpawnAfterEvent /\ ~SpawnFirst
  <2>1. \A c \in Child : Live(c)' => Live(c)
    BY <1>0, <1>2, NobodyStarts
  <2>2. CASE \A c \in Child : cpc'[c] = "printing" <=> cpc[c] = "printing"
    BY <1>0, <2>1, <2>2, RefinesLeave
  <2>3. ASSUME NEW c \in Child, cpc[c] \in {"waiting", "blocked"}, cpc' = [cpc EXCEPT ![c] = "printing"]
        PROVE  Abs!Next
    BY <1>0, <2>3, RefinesBegin DEF Live
  <2>4. ASSUME NEW c \in Child, cpc[c] = "printing", cpc' = [cpc EXCEPT ![c] = "finishing"]
        PROVE  Abs!Next
    BY <1>0, <2>4, RefinesEnd
  <2>5. CASE ReleaseTurn
    <3>1. \/ UNCHANGED cpc
          \/ \E c \in Child : cpc[c] = "blocked" /\ cpc' = [cpc EXCEPT ![c] = "printing"]
      BY <2>5, TurnIsGiven DEF Blocked
    <3>2. QED
      BY <2>2, <2>3, <3>1
  <2>6. ASSUME NEW c \in Child, ChildStep(c) \/ Vanish(c) PROVE Abs!Next \/ UNCHANGED Abs!vars
    <3>1. CASE PrintLine(c) \/ print_by_char(c)
      BY <2>4, <3>1 DEF PrintLine, print_by_char
    <3>2. CASE (WaitEvent(c) \/ WaitSemaphore(c)) /\ cpc' = [cpc EXCEPT ![c] = "printing"]
      BY <2>3, <3>2 DEF WaitEvent, WaitSemaphore
    <3>3. CASE WaitSemaphore(c) /\ cpc' = [cpc EXCEPT ![c] = "blocked"]
      BY <1>0, <2>2, <3>3 DEF WaitSemaphore, TypeOK
    <3>4. CASE OpenEvent(c) \/ OpenSemaphore(c)
      BY <1>0, <2>2, <3>4 DEF OpenEvent, OpenSemaphore, TypeOK
    <3>5. CASE ResetEvent(c) \/ SeeOwnReset(c) \/ ReleaseSemaphore(c)
      BY <1>0, <2>2, <3>5 DEF ResetEvent, SeeOwnReset, ReleaseSemaphore, TypeOK
    <3>6. CASE Vanish(c)
      BY <2>2, <3>6 DEF Vanish, childVars
    <3>7. (WaitEvent(c) => cpc' = [cpc EXCEPT ![c] = "printing"])
          /\ (WaitSemaphore(c) => \/ cpc' = [cpc EXCEPT ![c] = "printing"]
                                  \/ cpc' = [cpc EXCEPT ![c] = "blocked"])
      BY DEF WaitEvent, WaitSemaphore
    <3>8. QED
      BY <2>6, <3>1, <3>2, <3>3, <3>4, <3>5, <3>6, <3>7 DEF ChildStep
  <2>7. CASE KeyQuit \/ SpawnFirstFails \/ GiveUp \/ RemoveProcess \/ RemoveHandlePair
    <3>1. PICK S : cpc' = Terminated(S)
      BY <2>7 DEF KeyQuit, SpawnFirstFails, GiveUp, CloseAll, CloseFrom, RemoveProcess, RemoveHandlePair
    <3>2. \A c \in Child : cpc'[c] = cpc[c] \/ cpc'[c] = "dead"
      BY <3>1 DEF Terminated
    <3>3. QED
      BY <2>2, <3>2, NotCut
  <2>8. CASE KeyAdd \/ NoKey \/ CreateEvent \/ SpawnAfterEventFails \/ CreateSemaphore \/ Push \/ NoTurn
             \/ SetEvent \/ SeeReset \/ WaitTurn \/ Poll \/ Over \/ UNCHANGED vars
    <3>1. UNCHANGED cpc
      BY <2>8 DEF KeyAdd, NoKey, CreateEvent, SpawnAfterEventFails, CreateSemaphore, Push, NoTurn,
         SetEvent, SeeReset, WaitTurn, Poll, Over, vars, childVars
    <3>2. QED
      BY <2>2, <3>1
  <2>9. QED
    BY <1>2, <2>5, <2>6, <2>7, <2>8 DEF Next, Keys, ParentStep
<1>3. QED
  BY <1>1, <1>2

\* Parent and children are line printers: whatever is pressed and whichever call fails, a
\* line that a child has begun is followed by its own end and by no other line before.
THEOREM ChildrenPrintLines == Spec => Implements
<1>1. Init => Abs!Init
  BY DEF Init, Abs!Init, Live
<1>2. IInv => OneWriter
  BY OnePrints DEF OneWriter
<1>3. IInv /\ Numbered /\ OneWriter /\ OneWriter' /\ [Next]_vars => [Abs!Next]_(Abs!vars)
  BY Refines
<1>4. QED
  BY <1>1, <1>2, <1>3, Invariance, PTL DEF Spec, Implements, Abs!Spec
=============================================================================
