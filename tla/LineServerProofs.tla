-------------------------- MODULE LineServerProofs --------------------------
(****************************************************************************)
(* Theorems about LineServer, for any input, any sizes of buffer and pipe   *)
(* and any range of undo values.  The argument: the values of the two       *)
(* semaphores tell whose turn it is, and the undo totals of the two         *)
(* processes differ by at most one, so that the first operation the kernel  *)
(* refuses is the server's release of the client, after which nobody has a  *)
(* turn.  Two further parts, further down: what is printed is of one line,  *)
(* and with lines that fit the program refines LineEcho.                    *)
(****************************************************************************)
EXTENDS LineServer, SequenceTheorems, WellFoundedInduction, TLAPS

USE DEF semaphores, parentVars, childVars

\* How often each process has raised its semaphore and released the other's.
ServerRaised == -adj.parent.SERVER
ServerReleased == adj.parent.CLIENT
ClientRaised == -adj.child.CLIENT
ClientReleased == adj.child.SERVER

Semaphores(server, client) == sem.SERVER = server /\ sem.CLIENT = client

Counts(raised, released, clientRaised, clientReleased) ==
  /\ ServerRaised = raised /\ ServerReleased = released
  /\ ClientRaised = clientRaised /\ ClientReleased = clientReleased

\* The server may enter a line, or is about to raise its semaphore.
ServerFirst(n) ==
  /\ ppc \in {"wait", "raise", "kill"} /\ cpc = "wait"
  /\ Semaphores(0, 1) /\ Counts(n, n, n, n)

\* The server takes and writes a line.
ServerBusy(n) ==
  /\ ppc \in {"input", "write", "release"} /\ cpc = "wait"
  /\ Semaphores(1, 1) /\ Counts(n + 1, n, n, n)

\* The client may print, or is about to raise its semaphore.
ClientFirst(n) ==
  /\ ppc \in {"wait", "kill"} /\ cpc \in {"wait", "raise"}
  /\ Semaphores(1, 0) /\ Counts(n + 1, n + 1, n, n)

\* The client reads and prints the line.
ClientBusy(n) ==
  /\ ppc \in {"wait", "kill"} /\ cpc \in {"read", "print", "release"}
  /\ Semaphores(1, 1) /\ Counts(n + 1, n + 1, n + 1, n)

\* The release of the client was refused.
Refused(n) ==
  /\ ppc \in {"wait", "kill"} /\ cpc = "wait"
  /\ n = MaxAdjust
  /\ Semaphores(1, 1) /\ Counts(n + 1, n, n, n)

Session == ppc \notin {"setup", "failed", "remove", "done"}

TurnInv ==
  /\ ppc \in {"setup", "failed"} => cpc = "none" /\ Semaphores(0, 0) /\ Counts(0, 0, 0, 0)
  /\ killed <=> ppc \in {"remove", "done"}
  /\ removed => ppc = "done"
  /\ Session => \E n \in 0..MaxAdjust :
       ServerFirst(n) \/ ServerBusy(n) \/ ClientFirst(n) \/ ClientBusy(n) \/ Refused(n)

\* There is something to write, and something to read.
PipeInv ==
  /\ ppc = "write" => unsent # <<>>
  /\ ppc = "release" => pipe # <<>>
  /\ Session /\ (sem.CLIENT = 0 \/ cpc = "read") => pipe # <<>>

IInv == TypeOK /\ TurnInv /\ PipeInv

-----------------------------------------------------------------------------

USE DEF Semaphores, Counts, ServerRaised, ServerReleased, ClientRaised, ClientReleased

\* What semop may do to the semaphore s when it adds d on behalf of p.
LEMMA AddToFacts ==
  ASSUME TypeOK, NEW p \in {"parent", "child"}, NEW s \in {"CLIENT", "SERVER"},
         NEW d \in {-1, 1}, AddTo(p, s, d)
  PROVE  /\ sem' \in [CLIENT : Nat, SERVER : Nat]
         /\ adj' \in [parent : Adjustments, child : Adjustments]
<1>1. CASE UNCHANGED <<sem, adj>>
  BY <1>1 DEF TypeOK
<1>2. CASE /\ ~removed /\ sem[s] + d >= 0 /\ Undoable(adj[p][s] - d)
           /\ sem' = [sem EXCEPT ![s] = @ + d]
           /\ adj' = [adj EXCEPT ![p][s] = @ - d]
  <2>1. sem' \in [CLIENT : Nat, SERVER : Nat]
    BY <1>2 DEF TypeOK
  <2>2. adj' \in [parent : Adjustments, child : Adjustments]
    BY <1>2, AdjustAssumption DEF TypeOK, Adjustments, Undoable
  <2>3. QED
    BY <2>1, <2>2
<1>3. QED
  BY <1>1, <1>2 DEF AddTo

\* What it does when the kernel grants it.
LEMMA Granted ==
  ASSUME TypeOK, NEW p \in {"parent", "child"}, NEW s \in {"CLIENT", "SERVER"},
         NEW d \in {-1, 1}, AddTo(p, s, d),
         ~removed, sem[s] + d >= 0, Undoable(adj[p][s] - d)
  PROVE  /\ \A t \in {"CLIENT", "SERVER"} : sem'[t] = IF t = s THEN sem[t] + d ELSE sem[t]
         /\ \A q \in {"parent", "child"}, t \in {"CLIENT", "SERVER"} :
              adj'[q][t] = IF q = p /\ t = s THEN adj[q][t] - d ELSE adj[q][t]
<1>1. sem' = [sem EXCEPT ![s] = @ + d] /\ adj' = [adj EXCEPT ![p][s] = @ - d]
  BY DEF AddTo
<1>2. \A t \in {"CLIENT", "SERVER"} : sem'[t] = IF t = s THEN sem[t] + d ELSE sem[t]
  BY <1>1 DEF TypeOK
<1>3. \A q \in {"parent", "child"}, t \in {"CLIENT", "SERVER"} :
        adj'[q][t] = IF q = p /\ t = s THEN adj[q][t] - d ELSE adj[q][t]
  BY <1>1 DEF TypeOK, Adjustments
<1>4. QED
  BY <1>2, <1>3

\* The first n elements of a sequence, and the others.
LEMMA SplitFacts ==
  ASSUME NEW S, NEW s \in Seq(S), NEW n \in 0..Len(s)
  PROVE  /\ SubSeq(s, 1, n) \in Seq(S) /\ Len(SubSeq(s, 1, n)) = n
         /\ SubSeq(s, n + 1, Len(s)) \in Seq(S) /\ Len(SubSeq(s, n + 1, Len(s))) = Len(s) - n
<1>1. n \in Int /\ n >= 0 /\ Len(s) \in Int /\ n <= Len(s) /\ n + 1 \in Int
  BY LenProperties
<1>2. \A i \in 1..Len(s) : s[i] \in S
  BY ElementOfSeq
<1>3. (\A i \in 1..n : s[i] \in S) /\ (\A i \in (n + 1)..Len(s) : s[i] \in S)
  BY <1>1, <1>2
<1>4. SubSeq(s, 1, n) \in Seq(S) /\ Len(SubSeq(s, 1, n)) = n
  BY <1>1, <1>3, SubSeqProperties
<1>5. SubSeq(s, n + 1, Len(s)) \in Seq(S) /\ Len(SubSeq(s, n + 1, Len(s))) = Len(s) - n
  BY <1>1, <1>3, SubSeqProperties
<1>6. QED
  BY <1>4, <1>5

\* Some natural numbers have a least one among them.
LEMMA LeastOfNats ==
  ASSUME NEW T \in SUBSET Nat, T # {}
  PROVE  \E m \in T : \A j \in T : m <= j
<1> DEFINE less == OpToRel(<, Nat)
<1>1. \A x, y \in Nat : <<x, y>> \in less <=> x < y
  BY DEF OpToRel
<1>2. IsWellFoundedOn(less, Nat)
  BY NatLessThanWellFounded
<1> HIDE DEF less
<1>3. PICK m \in T : \A j \in T : <<j, m>> \notin less
  BY <1>2, WFMin
<1>4. ASSUME NEW j \in T PROVE m <= j
  <2>1. m \in Nat /\ j \in Nat
    OBVIOUS
  <2>2. ~(j < m)
    BY <1>1, <1>3, <2>1, Zenon
  <2>3. QED
    BY <2>1, <2>2
<1>5. QED
  BY <1>4

\* The two parts of a split sequence, element by element.
LEMMA SplitElements ==
  ASSUME NEW S, NEW s \in Seq(S), NEW n \in 0..Len(s)
  PROVE  /\ \A i \in 1..n : SubSeq(s, 1, n)[i] = s[i]
         /\ \A i \in 1..(Len(s) - n) : SubSeq(s, n + 1, Len(s))[i] = s[n + i]
         /\ SubSeq(s, 1, n) \o SubSeq(s, n + 1, Len(s)) = s
<1> DEFINE first == SubSeq(s, 1, n)
           rest == SubSeq(s, n + 1, Len(s))
<1>1. n \in Int /\ n >= 0 /\ Len(s) \in Int /\ n <= Len(s) /\ n + 1 \in Int
  BY LenProperties
<1>2. \A i \in 1..Len(s) : s[i] \in S
  BY ElementOfSeq
<1>3. (\A i \in 1..n : s[i] \in S) /\ (\A i \in (n + 1)..Len(s) : s[i] \in S)
  BY <1>1, <1>2
<1>4. \A i \in 1..n : first[i] = s[i]
  <2>1. \A i \in 1..(n - 1 + 1) : first[i] = s[1 + i - 1]
    BY <1>1, <1>3, SubSeqProperties
  <2> HIDE DEF first
  <2> QED
    BY <1>1, <2>1
<1>5. \A i \in 1..(Len(s) - n) : rest[i] = s[n + i]
  <2>1. \A i \in 1..(Len(s) - (n + 1) + 1) : rest[i] = s[(n + 1) + i - 1]
    BY <1>1, <1>3, SubSeqProperties
  <2> HIDE DEF rest
  <2> QED
    BY <1>1, <2>1
<1>6. /\ first \in Seq(S) /\ Len(first) = n
      /\ rest \in Seq(S) /\ Len(rest) = Len(s) - n
  BY SplitFacts
<1> HIDE DEF first, rest
<1>7. first \o rest = s
  <2>1. /\ first \o rest \in Seq(S) /\ Len(first \o rest) = Len(s)
        /\ \A i \in 1..Len(s) : (first \o rest)[i] = IF i <= n THEN first[i] ELSE rest[i - n]
    BY <1>1, <1>6, ConcatProperties
  <2>2. \A i \in 1..Len(s) : (first \o rest)[i] = s[i]
    BY <1>1, <1>4, <1>5, <2>1
  <2> QED
    BY <2>1, <2>2, SeqEqual
<1> QED
  BY <1>4, <1>5, <1>7 DEF first, rest

\* Of three sequences put together, it does not matter which two are first.
LEMMA Regrouped ==
  ASSUME NEW S, NEW p \in Seq(S), NEW a \in Seq(S), NEW b \in Seq(S)
  PROVE  (p \o a) \o b = p \o (a \o b)
BY ConcatAssociative

\* The bytes of a line and their NUL, one by one.
LEMMA MessageElements ==
  ASSUME NEW lines \in Seq(TextLine), NEW i \in DOMAIN lines
  PROVE  /\ lines[i].size \in Nat
         /\ Text(lines, i) \in Seq(Byte) /\ Len(Text(lines, i)) = lines[i].size
         /\ \A p \in 1..lines[i].size : Text(lines, i)[p] = [line |-> i, pos |-> p]
         /\ Message(lines, i) \in Seq(Byte) /\ Len(Message(lines, i)) = lines[i].size + 1
         /\ \A p \in 1..(lines[i].size + 1) : Message(lines, i)[p] = [line |-> i, pos |-> p]
<1>1. i \in Nat /\ lines[i].size \in Nat
  <2>1. i \in 1..Len(lines) /\ lines[i] \in TextLine
    BY LenProperties, ElementOfSeq
  <2> QED
    BY <2>1 DEF TextLine
<1>2. \A p \in 1..(lines[i].size + 1) : [line |-> i, pos |-> p] \in Byte
  BY <1>1 DEF Byte
<1>3. Text(lines, i) \in Seq(Byte)
  <2>1. \A p \in 1..lines[i].size : [line |-> i, pos |-> p] \in Byte
    BY <1>1, <1>2
  <2> QED
    BY <1>1, <2>1, IsASeq DEF Text
<1>4. /\ Len(Text(lines, i)) = lines[i].size
      /\ \A p \in 1..lines[i].size : Text(lines, i)[p] = [line |-> i, pos |-> p]
  BY <1>1, <1>3, LenProperties DEF Text
<1> DEFINE size == lines[i].size
           text == Text(lines, i)
           nul == [line |-> i, pos |-> size + 1]
<1> HIDE DEF text, nul, size
<1>5. Message(lines, i) = Append(text, nul)
  BY DEF Message, text, nul, size
<1>6. /\ Append(text, nul) \in Seq(Byte) /\ Len(Append(text, nul)) = size + 1
      /\ \A p \in 1..size : Append(text, nul)[p] = text[p]
      /\ Append(text, nul)[size + 1] = nul
  <2>1. nul \in Byte /\ text \in Seq(Byte) /\ Len(text) = size
    BY <1>1, <1>2, <1>3, <1>4 DEF nul, size, text
  <2> QED
    BY <2>1, AppendProperties
<1>7. \A p \in 1..(size + 1) : Append(text, nul)[p] = [line |-> i, pos |-> p]
  <2> TAKE p \in 1..(size + 1)
  <2>1. CASE p = size + 1
    BY <1>6, <2>1 DEF nul, size
  <2>2. CASE p # size + 1
    <3>1. p \in 1..size
      BY <1>1, <2>2 DEF size
    <3>2. text[p] = [line |-> i, pos |-> p]
      BY <1>4, <3>1 DEF text, size
    <3> QED
      BY <1>6, <3>1, <3>2
  <2> QED
    BY <2>1, <2>2
<1> QED
  BY <1>1, <1>3, <1>4, <1>5, <1>6, <1>7 DEF text, size

-----------------------------------------------------------------------------

\* The invariant holds at the start: no turn yet, nothing undone, an empty pipe.
LEMMA InitTyped == Init => IInv
<1> SUFFICES ASSUME Init PROVE IInv
  OBVIOUS
<1>1. buf \in Seq(Byte) /\ Len(buf) = BUFSIZE
  <2>1. Garbage \in Byte
    BY DEF Garbage, Byte
  <2>2. buf = [i \in 1..BUFSIZE |-> Garbage] /\ BUFSIZE \in Nat
    BY SizesAssumption DEF Init
  <2>3. buf \in Seq(Byte)
    BY <2>1, <2>2, IsASeq
  <2>4. QED
    BY <2>2, <2>3, LenProperties
<1>2. TypeOK
  <2>1. adj \in [parent : Adjustments, child : Adjustments]
    BY AdjustAssumption DEF Init, Adjustments
  <2>2. sem \in [CLIENT : Nat, SERVER : Nat] /\ sem \in Values
    BY DEF Init, Values
  <2>3. pipe \in Seq(Byte) /\ Len(pipe) <= PipeSize /\ unsent \in Seq(Byte)
        /\ typed \in Seq(TextLine) /\ shown \in Seq(Seq(Byte)) /\ user_input \in TextLine
    BY SizesAssumption DEF Init, Empty, TextLine
  <2>4. QED
    BY <1>1, <2>1, <2>2, <2>3 DEF Init, TypeOK
<1>3. TurnInv /\ PipeInv
  BY DEF Init, TurnInv, PipeInv, Session
<1>4. QED
  BY <1>2, <1>3 DEF IInv

\* After set-up the session is at ServerFirst(0), or it has failed.
LEMMA SetupStep == IInv /\ Setup => IInv'
<1> SUFFICES ASSUME IInv, Setup PROVE IInv'
  OBVIOUS
<1>1. TypeOK'
  BY DEF IInv, TypeOK, Setup, FirstValues, Values
<1>2. TurnInv'
  <2>1. CASE ppc' = "failed"
    BY <2>1 DEF IInv, TurnInv, Setup, Session
  <2>2. CASE ppc' = "wait"
    <3>1. ServerFirst(0)'
      BY <2>2 DEF IInv, TypeOK, TurnInv, Setup, FirstValues, ServerFirst
    <3>2. 0 \in 0..MaxAdjust
      BY AdjustAssumption
    <3>3. QED
      BY <2>2, <3>1, <3>2 DEF IInv, TurnInv, Setup
  <2>3. QED
    BY <2>1, <2>2 DEF Setup
<1>3. PipeInv'
  BY DEF IInv, PipeInv, Setup, Session, FirstValues
<1>4. QED
  BY <1>1, <1>2, <1>3 DEF IInv

\* The server passes its wait only at ServerFirst.
LEMMA WaitServerStep == IInv /\ WaitServer => IInv'
<1> SUFFICES ASSUME IInv, WaitServer PROVE IInv'
  OBVIOUS
<1> USE DEF WaitServer, WaitServerNever, IsZero
<1>1. TypeOK'
  BY DEF IInv, TypeOK
<1>2. PICK n \in 0..MaxAdjust : ServerFirst(n)
  BY DEF IInv, TurnInv, Session, ServerBusy, ClientFirst, ClientBusy, Refused
<1>3. ServerFirst(n)'
  BY <1>2 DEF ServerFirst
<1>4. TurnInv'
  BY <1>3 DEF IInv, TurnInv
<1>5. PipeInv'
  BY <1>3 DEF IInv, PipeInv, Session, ServerFirst
<1>6. QED
  BY <1>1, <1>4, <1>5 DEF IInv

\* ServerFirst(n) becomes ServerBusy(n); the kernel cannot refuse.
LEMMA RaiseServerStep == IInv /\ RaiseServer => IInv'
<1> SUFFICES ASSUME IInv, RaiseServer PROVE IInv'
  OBVIOUS
<1>1. PICK n \in 0..MaxAdjust : ServerFirst(n)
  BY DEF IInv, TurnInv, Session, ServerBusy, ClientFirst, ClientBusy, Refused, RaiseServer
<1>2. ~removed /\ ~killed
  BY DEF IInv, TurnInv, RaiseServer
<1>3. Undoable(adj.parent.SERVER - 1)
  BY <1>1, AdjustAssumption DEF ServerFirst, Undoable, IInv, TypeOK, Adjustments
<1>4. /\ sem'.CLIENT = 1 /\ sem'.SERVER = 1
      /\ adj'.parent.SERVER = adj.parent.SERVER - 1 /\ adj'.parent.CLIENT = adj.parent.CLIENT
      /\ adj'.child.CLIENT = adj.child.CLIENT /\ adj'.child.SERVER = adj.child.SERVER
  BY <1>1, <1>2, <1>3, Granted DEF RaiseServer, ServerFirst, IInv
<1>5. ServerBusy(n)'
  <2>1. adj.parent.SERVER \in Int
    BY AdjustAssumption DEF IInv, TypeOK, Adjustments
  <2>2. QED
    BY <1>1, <1>4, <2>1 DEF RaiseServer, ServerFirst, ServerBusy
<1>6. TypeOK'
  <2>1. /\ sem' \in [CLIENT : Nat, SERVER : Nat]
        /\ adj' \in [parent : Adjustments, child : Adjustments]
    BY AddToFacts DEF IInv, RaiseServer
  <2>2. sem' \in Values
    BY <1>4, <2>1 DEF Values
  <2>3. QED
    BY <2>1, <2>2 DEF IInv, TypeOK, RaiseServer
<1>7. TurnInv'
  BY <1>2, <1>5 DEF IInv, TurnInv, RaiseServer
<1>8. PipeInv'
  BY <1>5 DEF PipeInv, ServerBusy, RaiseServer
<1>9. QED
  BY <1>6, <1>7, <1>8 DEF IInv

\* A line is taken at ServerBusy; there is a NUL to write at least.
LEMMA GetLineStep == IInv /\ GetLine => IInv'
<1> SUFFICES ASSUME IInv, GetLine PROVE IInv'
  OBVIOUS
<1>1. PICK n \in 0..MaxAdjust : ServerBusy(n)
  BY DEF IInv, TurnInv, Session, ServerFirst, ClientFirst, ClientBusy, Refused, GetLine
<1>2. ServerBusy(n)'
  BY <1>1 DEF ServerBusy, GetLine
<1>3. user_input' \in TextLine
  <2>1. input \in Seq(TextLine) /\ Len(typed) \in Nat /\ user_input \in TextLine
    BY InputsAssumption, LenProperties DEF IInv, TypeOK
  <2>2. Empty \in TextLine
    BY DEF Empty, TextLine
  <2>3. CASE Len(typed) < Len(input)
    <3>1. Len(typed) + 1 \in 1..Len(input)
      BY <2>1, <2>3, LenProperties
    <3>2. QED
      BY <2>1, <2>3, <3>1, ElementOfSeq DEF GetLine, LineAfter
  <2>4. QED
    BY <2>1, <2>2, <2>3 DEF GetLine, LineAfter
<1>4. typed' \in Seq(TextLine) /\ Len(typed') \in DOMAIN typed'
  BY <1>3, AppendProperties, LenProperties DEF GetLine, IInv, TypeOK
<1>5. unsent' \in Seq(Byte) /\ unsent' # <<>>
  <2>1. PICK i \in DOMAIN typed' : i = Len(typed')
    BY <1>4
  <2>2. /\ Message(typed', i) \in Seq(Byte) /\ Len(Message(typed', i)) = typed'[i].size + 1
        /\ typed'[i].size \in Nat
    BY <1>4, MessageElements
  <2>3. unsent' = Message(typed', i)
    BY <2>1 DEF GetLine
  <2>4. QED
    BY <2>2, <2>3, EmptySeq
<1>6. TypeOK'
  BY <1>3, <1>4, <1>5 DEF IInv, TypeOK, GetLine
<1>7. TurnInv'
  BY <1>2 DEF IInv, TurnInv, GetLine
<1>8. PipeInv'
  BY <1>2, <1>5 DEF PipeInv, GetLine, ServerBusy
<1>9. QED
  BY <1>6, <1>7, <1>8 DEF IInv

\* Some bytes get into the pipe; write goes on while some are left.
LEMMA WriteStep == IInv /\ Write => IInv'
<1> SUFFICES ASSUME IInv, Write PROVE IInv'
  OBVIOUS
<1> USE DEF Write, PutSome
<1>1. PICK n \in 0..MaxAdjust : ServerBusy(n)
  BY DEF IInv, TurnInv, Session, ServerFirst, ClientFirst, ClientBusy, Refused
<1>2. ServerBusy(n)'
  BY <1>1 DEF ServerBusy
<1> DEFINE room == PipeSize - Len(pipe)
           k == IF Len(unsent) < room THEN Len(unsent) ELSE room
           put == SubSeq(unsent, 1, k)
           rest == SubSeq(unsent, k + 1, Len(unsent))
<1>3. /\ pipe \in Seq(Byte) /\ unsent \in Seq(Byte) /\ unsent # <<>>
      /\ Len(pipe) \in Nat /\ Len(unsent) \in Nat \ {0} /\ Len(pipe) < PipeSize
      /\ PipeSize \in Nat
  BY LenProperties, EmptySeq, SizesAssumption DEF IInv, TypeOK, PipeInv
<1>4. k \in 1..Len(unsent) /\ Len(pipe) + k <= PipeSize
  BY <1>3
<1>5. pipe' = pipe \o put /\ unsent' = rest /\ ppc' = IF k < Len(unsent) THEN "write" ELSE "release"
  OBVIOUS
<1> HIDE DEF room
<1>6. put \in Seq(Byte) /\ Len(put) = k /\ rest \in Seq(Byte) /\ Len(rest) = Len(unsent) - k
  <2> HIDE DEF k
  <2>1. QED
    BY <1>3, <1>4, SplitFacts
<1>7. k < Len(unsent) => rest # <<>>
  <2> HIDE DEF k, rest
  <2>1. QED
    BY <1>3, <1>4, <1>6, EmptySeq
<1>8. pipe' \in Seq(Byte) /\ Len(pipe') = Len(pipe) + k
  <2> HIDE DEF k, put, rest
  <2>1. QED
    BY <1>3, <1>5, <1>6, ConcatProperties
<1>9. pipe' # <<>>
  <2> HIDE DEF k
  <2>1. QED
    BY <1>3, <1>4, <1>8, EmptySeq
<1>10. TypeOK'
  <2> HIDE DEF k, put, rest
  <2>1. QED
    BY <1>3, <1>4, <1>5, <1>6, <1>8 DEF IInv, TypeOK
<1>11. TurnInv'
  BY <1>1, <1>2 DEF IInv, TurnInv, ServerBusy
<1>12. PipeInv'
  <2> HIDE DEF k, put, rest
  <2>1. QED
    BY <1>5, <1>7, <1>9 DEF PipeInv
<1>13. QED
  BY <1>10, <1>11, <1>12 DEF IInv

\* ServerBusy(n) becomes ClientFirst(n), or Refused(n) when n is the limit.
LEMMA ReleaseClientStep == IInv /\ ReleaseClient => IInv'
<1> SUFFICES ASSUME IInv, ReleaseClient PROVE IInv'
  OBVIOUS
<1>1. PICK n \in 0..MaxAdjust : ServerBusy(n)
  BY DEF IInv, TurnInv, Session, ServerFirst, ClientFirst, ClientBusy, Refused, ReleaseClient
<1>2. ~removed /\ ~killed /\ pipe # <<>>
  BY DEF IInv, TurnInv, PipeInv, ReleaseClient
<1>3. MaxAdjust \in Nat /\ adj.parent.CLIENT \in Int
  BY AdjustAssumption DEF IInv, TypeOK, Adjustments
<1>4. n < MaxAdjust => ClientFirst(n)'
  <2> SUFFICES ASSUME n < MaxAdjust PROVE ClientFirst(n)'
    OBVIOUS
  <2>1. Undoable(adj.parent.CLIENT + 1) /\ adj.parent.CLIENT - (-1) = adj.parent.CLIENT + 1
    BY <1>1, <1>3 DEF ServerBusy, Undoable
  <2>2. /\ sem'.CLIENT = 0 /\ sem'.SERVER = 1
        /\ adj'.parent.CLIENT = adj.parent.CLIENT + 1
        /\ adj'.parent.SERVER = adj.parent.SERVER
        /\ adj'.child.CLIENT = adj.child.CLIENT /\ adj'.child.SERVER = adj.child.SERVER
    BY <1>1, <1>2, <2>1, Granted DEF ReleaseClient, ServerBusy, IInv
  <2>3. QED
    BY <1>1, <1>3, <2>2 DEF ReleaseClient, ServerBusy, ClientFirst
<1>5. n = MaxAdjust => Refused(n)'
  <2> SUFFICES ASSUME n = MaxAdjust PROVE Refused(n)'
    OBVIOUS
  <2>1. ~Undoable(adj.parent.CLIENT - (-1))
    BY <1>1, <1>3 DEF ServerBusy, Undoable
  <2>2. UNCHANGED <<sem, adj>>
    BY <1>2, <2>1 DEF ReleaseClient, AddTo
  <2>3. QED
    BY <1>1, <2>2 DEF ReleaseClient, ServerBusy, Refused
<1>6. (ClientFirst(n) \/ Refused(n))'
  BY <1>3, <1>4, <1>5
<1>7. TypeOK'
  <2>1. /\ sem' \in [CLIENT : Nat, SERVER : Nat]
        /\ adj' \in [parent : Adjustments, child : Adjustments]
    BY AddToFacts DEF IInv, ReleaseClient
  <2>2. sem' \in Values
    BY <1>6, <2>1 DEF Values, ClientFirst, Refused
  <2>3. QED
    BY <2>1, <2>2 DEF IInv, TypeOK, ReleaseClient
<1>8. TurnInv'
  BY <1>2, <1>6 DEF TurnInv, ReleaseClient
<1>9. PipeInv'
  BY <1>2 DEF PipeInv, ReleaseClient
<1>10. QED
  BY <1>7, <1>8, <1>9 DEF IInv

\* The session ends when the client is killed.
LEMMA KillStep == IInv /\ Kill => IInv'
<1> SUFFICES ASSUME IInv, Kill PROVE IInv'
  OBVIOUS
<1>1. TypeOK'
  BY DEF IInv, TypeOK, Kill
<1>2. TurnInv'
  BY DEF IInv, TurnInv, Session, Kill
<1>3. PipeInv'
  BY DEF PipeInv, Session, Kill
<1>4. QED
  BY <1>1, <1>2, <1>3 DEF IInv

\* The set is removed after that.
LEMMA RemoveSetStep == IInv /\ RemoveSet => IInv'
<1> SUFFICES ASSUME IInv, RemoveSet PROVE IInv'
  OBVIOUS
<1>1. TypeOK'
  BY DEF IInv, TypeOK, RemoveSet
<1>2. TurnInv'
  BY DEF IInv, TurnInv, Session, RemoveSet
<1>3. PipeInv'
  BY DEF PipeInv, Session, RemoveSet
<1>4. QED
  BY <1>1, <1>2, <1>3 DEF IInv

-----------------------------------------------------------------------------

\* A child that has been forked is at one of its points; while it is not killed the
\* session goes on.
LEMMA ChildInSession == IInv /\ cpc # "none" /\ ~killed => Session
BY DEF IInv, TurnInv, Session

\* The client passes its wait only at ClientFirst.
LEMMA WaitClientStep == IInv /\ WaitClient => IInv'
<1> SUFFICES ASSUME IInv, WaitClient PROVE IInv'
  OBVIOUS
<1> USE DEF WaitClient, WaitClientNever, IsZero
<1>1. Session
  BY ChildInSession
<1>2. PICK n \in 0..MaxAdjust : ClientFirst(n)
  BY <1>1 DEF IInv, TurnInv, ServerFirst, ServerBusy, ClientBusy, Refused
<1>3. ClientFirst(n)'
  BY <1>2 DEF ClientFirst
<1>4. TypeOK'
  BY DEF IInv, TypeOK
<1>5. TurnInv'
  BY <1>3 DEF IInv, TurnInv, ClientFirst
<1>6. PipeInv'
  BY DEF IInv, PipeInv, Session
<1>7. QED
  BY <1>4, <1>5, <1>6 DEF IInv

\* The client reads at ClientBusy; the buffer keeps its length.
LEMMA ReadStep == IInv /\ Read => IInv'
<1> SUFFICES ASSUME IInv, Read PROVE IInv'
  OBVIOUS
<1>1. Session
  BY ChildInSession DEF Read
<1>2. PICK n \in 0..MaxAdjust : ClientBusy(n)
  BY <1>1 DEF IInv, TurnInv, ServerFirst, ServerBusy, ClientFirst, Refused, Read
<1>3. ClientBusy(n)'
  BY <1>2 DEF ClientBusy, Read
<1> DEFINE k == IF Len(pipe) < BUFSIZE THEN Len(pipe) ELSE BUFSIZE
           got == SubSeq(pipe, 1, k)
           rest == SubSeq(pipe, k + 1, Len(pipe))
           kept == SubSeq(buf, k + 1, BUFSIZE)
<1>4. /\ pipe \in Seq(Byte) /\ buf \in Seq(Byte) /\ Len(buf) = BUFSIZE
      /\ Len(pipe) \in Nat /\ BUFSIZE \in Nat /\ Len(pipe) <= PipeSize /\ PipeSize \in Nat
  BY LenProperties, SizesAssumption DEF IInv, TypeOK
<1>5. k \in 0..Len(pipe) /\ k \in 0..Len(buf)
  BY <1>4
<1>6. buf' = got \o kept /\ pipe' = rest
  BY DEF Read
<1> HIDE DEF k
<1>7. got \in Seq(Byte) /\ Len(got) = k /\ rest \in Seq(Byte) /\ Len(rest) = Len(pipe) - k
  BY <1>4, <1>5, SplitFacts
<1>8. kept \in Seq(Byte) /\ Len(kept) = BUFSIZE - k
  BY <1>4, <1>5, SplitFacts
<1> HIDE DEF got, rest, kept
<1>9. buf' \in Seq(Byte) /\ Len(buf') = BUFSIZE
  <2>1. got \o kept \in Seq(Byte) /\ Len(got \o kept) = Len(got) + Len(kept)
    BY <1>7, <1>8, ConcatProperties
  <2>2. QED
    BY <1>4, <1>5, <1>6, <1>7, <1>8, <2>1
<1>10. pipe' \in Seq(Byte) /\ Len(pipe') <= PipeSize
  BY <1>4, <1>5, <1>6, <1>7
<1>11. TypeOK'
  BY <1>9, <1>10 DEF IInv, TypeOK, Read
<1>12. TurnInv'
  BY <1>3 DEF IInv, TurnInv, Read, ClientBusy
<1>13. PipeInv'
  BY <1>2 DEF PipeInv, Read, ClientBusy
<1>14. QED
  BY <1>11, <1>12, <1>13 DEF IInv

\* ClientFirst(n) becomes ClientBusy(n); after SIGKILL only the types matter.
LEMMA RaiseClientStep == IInv /\ RaiseClient => IInv'
<1> SUFFICES ASSUME IInv, RaiseClient PROVE IInv'
  OBVIOUS
<1>1. /\ sem' \in [CLIENT : Nat, SERVER : Nat]
      /\ adj' \in [parent : Adjustments, child : Adjustments]
  BY AddToFacts DEF IInv, RaiseClient
<1>2. CASE killed
  <2>1. TypeOK'
    BY <1>1, <1>2 DEF IInv, TypeOK, RaiseClient
  <2>2. TurnInv' /\ PipeInv'
    BY <1>2 DEF IInv, TurnInv, PipeInv, Session, RaiseClient
  <2>3. QED
    BY <2>1, <2>2 DEF IInv
<1>3. CASE ~killed
  <2>1. Session /\ ~removed
    BY <1>3, ChildInSession DEF RaiseClient, IInv, TurnInv, Session
  <2>2. PICK n \in 0..MaxAdjust : ClientFirst(n)
    BY <2>1 DEF IInv, TurnInv, ServerFirst, ServerBusy, ClientBusy, Refused, RaiseClient
  <2>3. Undoable(adj.child.CLIENT - 1) /\ adj.child.CLIENT \in Int
    BY <2>2, AdjustAssumption DEF ClientFirst, Undoable, IInv, TypeOK, Adjustments
  <2>4. /\ sem'.CLIENT = 1 /\ sem'.SERVER = 1
        /\ adj'.child.CLIENT = adj.child.CLIENT - 1 /\ adj'.child.SERVER = adj.child.SERVER
        /\ adj'.parent.CLIENT = adj.parent.CLIENT /\ adj'.parent.SERVER = adj.parent.SERVER
    BY <2>1, <2>2, <2>3, Granted DEF RaiseClient, ClientFirst, IInv
  <2>5. ClientBusy(n)'
    BY <2>2, <2>3, <2>4 DEF RaiseClient, ClientFirst, ClientBusy
  <2>6. TypeOK'
    <3>1. sem' \in Values
      BY <1>1, <2>4 DEF Values
    <3>2. QED
      BY <1>1, <3>1 DEF IInv, TypeOK, RaiseClient
  <2>7. TurnInv'
    BY <2>5 DEF IInv, TurnInv, RaiseClient, ClientBusy
  <2>8. PipeInv'
    BY <2>1, <2>2 DEF IInv, PipeInv, RaiseClient, ClientFirst, Session
  <2>9. QED
    BY <2>6, <2>7, <2>8 DEF IInv
<1>4. QED
  BY <1>2, <1>3

\* What is printed is a sequence of bytes, whatever the buffer holds.
LEMMA ShowStep == IInv /\ Show => IInv'
<1> SUFFICES ASSUME IInv, Show PROVE IInv'
  OBVIOUS
<1>1. CString(buf) \in Seq(Byte)
  <2> DEFINE ends == {i \in 1..BUFSIZE : IsNUL(buf[i])}
             first == CHOOSE i \in ends : \A j \in ends : i <= j
  <2>1. buf \in Seq(Byte) /\ Len(buf) = BUFSIZE /\ BUFSIZE \in Nat
    BY SizesAssumption DEF IInv, TypeOK
  <2>2. CASE ends = {}
    <3>1. Past \in Byte
      BY DEF Past, Byte
    <3>2. QED
      BY <2>1, <2>2, <3>1, AppendProperties DEF CString
  <2>3. CASE ends # {}
    <3>1. first \in ends
      <4>1. ends \in SUBSET Nat
        BY <2>1
      <4>2. PICK m \in ends : \A j \in ends : m <= j
        BY <2>3, <4>1, LeastOfNats
      <4>3. QED
        BY <4>2
    <3>2. first - 1 \in 0..Len(buf)
      BY <2>1, <3>1
    <3>3. SubSeq(buf, 1, first - 1) \in Seq(Byte)
      <4> HIDE DEF first
      <4>1. QED
        BY <2>1, <3>2, SplitFacts
    <3>4. QED
      BY <2>3, <3>3 DEF CString
  <2>4. QED
    BY <2>2, <2>3
<1>2. TypeOK'
  <2>1. shown' \in Seq(Seq(Byte))
    BY <1>1, AppendProperties DEF Show, IInv, TypeOK
  <2>2. QED
    BY <2>1 DEF IInv, TypeOK, Show
<1>3. TurnInv'
  <2>1. CASE Session
    <3>1. PICK n \in 0..MaxAdjust : ClientBusy(n)
      BY <2>1 DEF IInv, TurnInv, ServerFirst, ServerBusy, ClientFirst, Refused, Show
    <3>2. ClientBusy(n)'
      BY <3>1 DEF ClientBusy, Show
    <3>3. QED
      BY <3>2 DEF IInv, TurnInv, Show, ClientBusy
  <2>2. CASE ~Session
    BY <2>2 DEF IInv, TurnInv, Session, Show
  <2>3. QED
    BY <2>1, <2>2
<1>4. PipeInv'
  BY DEF IInv, PipeInv, Session, Show
<1>5. QED
  BY <1>2, <1>3, <1>4 DEF IInv

\* ClientBusy(n) becomes ServerFirst(n + 1): the server's own undo total has
\* got to n + 1 already, so the kernel cannot refuse.
LEMMA ReleaseServerStep == IInv /\ ReleaseServer => IInv'
<1> SUFFICES ASSUME IInv, ReleaseServer PROVE IInv'
  OBVIOUS
<1>1. /\ sem' \in [CLIENT : Nat, SERVER : Nat]
      /\ adj' \in [parent : Adjustments, child : Adjustments]
  BY AddToFacts DEF IInv, ReleaseServer
<1>2. CASE killed
  <2>1. TypeOK'
    BY <1>1, <1>2 DEF IInv, TypeOK, ReleaseServer
  <2>2. TurnInv' /\ PipeInv'
    BY <1>2 DEF IInv, TurnInv, PipeInv, Session, ReleaseServer
  <2>3. QED
    BY <2>1, <2>2 DEF IInv
<1>3. CASE ~killed
  <2>1. Session /\ ~removed
    BY <1>3, ChildInSession DEF ReleaseServer, IInv, TurnInv, Session
  <2>2. PICK n \in 0..MaxAdjust : ClientBusy(n)
    BY <2>1 DEF IInv, TurnInv, ServerFirst, ServerBusy, ClientFirst, Refused, ReleaseServer
  <2>3. n + 1 \in 0..MaxAdjust
    BY <2>2, AdjustAssumption DEF ClientBusy, IInv, TypeOK, Adjustments
  <2>4. /\ adj.child.SERVER \in Int /\ adj.child.SERVER - (-1) = adj.child.SERVER + 1
        /\ Undoable(adj.child.SERVER + 1)
    BY <2>2, <2>3, AdjustAssumption DEF ClientBusy, Undoable, IInv, TypeOK, Adjustments
  <2>5. /\ sem'.CLIENT = 1 /\ sem'.SERVER = 0
        /\ adj'.child.SERVER = adj.child.SERVER + 1 /\ adj'.child.CLIENT = adj.child.CLIENT
        /\ adj'.parent.CLIENT = adj.parent.CLIENT /\ adj'.parent.SERVER = adj.parent.SERVER
    BY <2>1, <2>2, <2>4, Granted DEF ReleaseServer, ClientBusy, IInv
  <2>6. ServerFirst(n + 1)'
    BY <2>2, <2>4, <2>5 DEF ReleaseServer, ClientBusy, ServerFirst
  <2>7. TypeOK'
    <3>1. sem' \in Values
      BY <1>1, <2>5 DEF Values
    <3>2. QED
      BY <1>1, <3>1 DEF IInv, TypeOK, ReleaseServer
  <2>8. TurnInv'
    BY <2>3, <2>6 DEF IInv, TurnInv, ReleaseServer, ServerFirst
  <2>9. PipeInv'
    BY <2>5, <2>6 DEF PipeInv, ReleaseServer, ServerFirst
  <2>10. QED
    BY <2>7, <2>8, <2>9 DEF IInv
<1>4. QED
  BY <1>2, <1>3

\* The undo at the child's death leaves semaphores that are no less than 0.
LEMMA DieStep == IInv /\ Die => IInv'
<1> SUFFICES ASSUME IInv, Die PROVE IInv'
  OBVIOUS
<1>1. sem' \in [CLIENT : Nat, SERVER : Nat]
  <2>1. \A s \in {"CLIENT", "SERVER"} : sem[s] \in Nat /\ adj["child"][s] \in Int
    BY AdjustAssumption DEF IInv, TypeOK, Adjustments
  <2>2. \A s \in {"CLIENT", "SERVER"} : Undone(sem[s] + adj["child"][s]) \in Nat
    BY <2>1 DEF Undone
  <2>3. CASE removed
    BY <2>3 DEF IInv, TypeOK, Die
  <2>4. CASE ~removed
    BY <2>2, <2>4 DEF Die
  <2>5. QED
    BY <2>3, <2>4
<1>2. TypeOK'
  BY <1>1 DEF IInv, TypeOK, Die
<1>3. TurnInv' /\ PipeInv'
  BY DEF IInv, TurnInv, PipeInv, Session, Die
<1>4. QED
  BY <1>2, <1>3 DEF IInv

-----------------------------------------------------------------------------

\* Every step keeps the invariant.
LEMMA StepKeeps == IInv /\ [Next]_vars => IInv'
<1> SUFFICES ASSUME IInv, [Next]_vars PROVE IInv'
  OBVIOUS
<1>1. ASSUME UNCHANGED vars PROVE IInv'
  BY <1>1 DEF vars, IInv, TypeOK, TurnInv, PipeInv, Session, ServerFirst, ServerBusy, ClientFirst,
              ClientBusy, Refused
<1>2. CASE Parent
  BY <1>2, SetupStep, WaitServerStep, RaiseServerStep, WriteStep, ReleaseClientStep, KillStep,
     RemoveSetStep DEF Parent
<1>3. CASE GetLine
  BY <1>3, GetLineStep
<1>4. CASE Child
  BY <1>4, WaitClientStep, RaiseClientStep, ReadStep, ShowStep, ReleaseServerStep, DieStep
     DEF Child
<1>5. CASE Ended
  BY <1>1, <1>5 DEF Ended
<1>6. QED
  BY <1>1, <1>2, <1>3, <1>4, <1>5 DEF Next

\* IInv holds in every reachable state.
THEOREM Invariance == Spec => []IInv
<1>1. QED
  BY InitTyped, StepKeeps, PTL DEF Spec

\* The types of LineServer hold for every input, every size of buffer and pipe and every
\* range of undo values; in particular each semaphore is 0 or 1 while the session lasts.
THEOREM TypeCorrect == Spec => []TypeOK
<1>1. IInv => TypeOK
  BY DEF IInv
<1>2. QED
  BY <1>1, Invariance, PTL

\* The server and the client never have the turn together, although each tests its
\* semaphore and raises it in two operations and ignores what the kernel answers.
THEOREM TurnsKept == Spec => []Turns
<1>1. IInv => Turns
  BY DEF IInv, TurnInv, Session, ServerFirst, ServerBusy, ClientFirst, ClientBusy, Refused, Turns,
         ParentHasTurn, ChildHasTurn
<1>2. QED
  BY <1>1, Invariance, PTL

\* Who has the turn can go on, and the semaphores let one in when nobody has it; unless the
\* release of the client was refused, and that happens at the end of the undo range only.
LEMMA SomeoneGoes == IInv => NoStandstill
<1> SUFFICES ASSUME IInv, ppc # "input", ~PipeFull, ~Exhausted,
                    ~(ppc \in {"done", "failed"} /\ cpc \in {"none", "dead"})
             PROVE  ParentCanGo \/ ChildCanGo
  BY DEF NoStandstill
<1>1. CASE Session
  <2>1. ~removed
    BY <1>1 DEF IInv, TurnInv, Session
  <2>2. PICK n \in 0..MaxAdjust :
          ServerFirst(n) \/ ServerBusy(n) \/ ClientFirst(n) \/ ClientBusy(n) \/ Refused(n)
    BY <1>1 DEF IInv, TurnInv
  <2>3. CASE ServerFirst(n)
    BY <2>1, <2>3 DEF ServerFirst, ParentCanGo, IsZero
  <2>4. CASE ServerBusy(n)
    <3>1. ppc = "write" => Len(pipe) < PipeSize
      <4>1. Len(pipe) \in Nat /\ Len(pipe) <= PipeSize /\ PipeSize \in Nat
        BY SizesAssumption DEF IInv, TypeOK
      <4>2. QED
        BY <4>1 DEF PipeFull
    <3>2. sem.CLIENT > 0
      BY <2>4 DEF ServerBusy
    <3>3. QED
      BY <2>4, <3>1, <3>2 DEF ServerBusy, ParentCanGo
  <2>5. CASE ClientFirst(n)
    BY <2>1, <2>5 DEF ClientFirst, ChildCanGo, IsZero
  <2>6. CASE ClientBusy(n)
    <3>1. sem.SERVER > 0
      BY <2>6 DEF ClientBusy
    <3>2. cpc = "read" => pipe # <<>>
      BY <1>1 DEF IInv, PipeInv
    <3>3. QED
      BY <2>6, <3>1, <3>2 DEF ClientBusy, ChildCanGo
  <2>7. CASE Refused(n)
    <3>1. adj["parent"]["CLIENT"] = MaxAdjust
      BY <2>7 DEF Refused
    <3>2. QED
      BY <3>1, AdjustAssumption DEF Exhausted, Undoable
  <2>8. QED
    BY <2>2, <2>3, <2>4, <2>5, <2>6, <2>7
<1>2. CASE ppc \in {"setup", "remove"}
  BY <1>2 DEF ParentCanGo
<1>3. CASE ppc = "failed"
  BY <1>3 DEF IInv, TurnInv
<1>4. CASE ppc = "done"
  BY <1>4 DEF IInv, TurnInv, ChildCanGo
<1>5. QED
  BY <1>1, <1>2, <1>3, <1>4 DEF Session

\* When the client is let through its line is in the pipe, and the two processes never wait
\* for each other: up to the last operation that the undo range allows, and except in a
\* line that does not fit into the pipe, one of them can go on or the server is with the user.
THEOREM WaitsEnd == Spec => []Waits
<1>1. IInv => ReadReady
  BY DEF IInv, TurnInv, PipeInv, Session, ReadReady
<1>2. IInv => Waits
  BY <1>1, SomeoneGoes DEF Waits
<1>3. QED
  BY <1>2, Invariance, PTL

-----------------------------------------------------------------------------
(****************************************************************************)
(* What the client prints at a time is a stretch of one line.  The          *)
(* argument: the bytes on their way to the client run through one line      *)
(* after the other, each closed by its NUL, so that what stands in the      *)
(* buffer before the first NUL is of one line.                              *)
(****************************************************************************)

\* The bytes written or still to be written that the client has not read.
Sent == pipe \o unsent

\* The byte b is the NUL of its line.
Closes(lines, b) == b.line # 0 /\ b.pos = lines[b.line].size + 1

\* Of the first n bytes of s, each is of a line that was typed, and from one to a later
\* one the line goes on, unless a NUL stands between.
Running(lines, s, n) ==
  \A k \in 1..n :
    /\ s[k].line \in DOMAIN lines
    /\ \A j \in 1..k :
         \/ s[k].line = s[j].line /\ s[k].pos = s[j].pos + (k - j)
         \/ \E i \in j..(k - 1) : Closes(lines, s[i])

\* Nothing is left unsent but in the middle of a write, and the last byte is a NUL.
SentInv ==
  /\ ppc # "write" => unsent = <<>>
  /\ Running(typed, Sent, Len(Sent))
  /\ Sent # <<>> => Closes(typed, Sent[Len(Sent)])

\* What was read fills the buffer or ends with a NUL.
BufferInv ==
  cpc = "print" =>
    \E n \in 1..BUFSIZE : Running(typed, buf, n) /\ (n < BUFSIZE => Closes(typed, buf[n]))

TextInv == SentInv /\ BufferInv /\ Unmixed

-----------------------------------------------------------------------------

\* The sequences of bytes, and their lengths.
LEMMA SequenceTypes ==
  ASSUME TypeOK
  PROVE  /\ pipe \in Seq(Byte) /\ unsent \in Seq(Byte) /\ buf \in Seq(Byte)
         /\ Len(pipe) \in Nat /\ Len(unsent) \in Nat /\ Len(buf) = BUFSIZE
         /\ BUFSIZE \in Nat \ {0} /\ PipeSize \in Nat \ {0}
         /\ typed \in Seq(TextLine) /\ Len(typed) \in Nat /\ DOMAIN typed = 1..Len(typed)
BY LenProperties, SizesAssumption DEF TypeOK

\* A step that touches neither the bytes nor what was printed.
LEMMA TextFrame ==
  ASSUME TextInv, UNCHANGED <<pipe, unsent, buf, typed, shown>>,
         ppc' = "write" <=> ppc = "write", cpc' = "print" => cpc = "print"
  PROVE  TextInv'
BY DEF TextInv, SentInv, BufferInv, Unmixed, Sent

\* A new line goes behind the NUL of the one before it.
LEMMA GetLineText == IInv /\ TextInv /\ GetLine => TextInv'
<1> SUFFICES ASSUME IInv, TextInv, GetLine PROVE TextInv'
  OBVIOUS
<1>1. PICK n \in 0..MaxAdjust : ServerBusy(n)
  BY DEF IInv, TurnInv, Session, ServerFirst, ClientFirst, ClientBusy, Refused, GetLine
<1>2. BufferInv' /\ Unmixed'
  BY <1>1 DEF BufferInv, GetLine, ServerBusy, TextInv, Unmixed
<1> DEFINE L == Len(typed)
           m == Len(pipe)
           msg == Message(typed', L + 1)
<1>3. TypeOK /\ TypeOK' /\ unsent = <<>>
  BY GetLineStep DEF IInv, TextInv, SentInv, GetLine
<1>4. /\ L \in Nat /\ m \in Nat /\ pipe \in Seq(Byte)
      /\ typed \in Seq(TextLine) /\ DOMAIN typed = 1..L
      /\ typed' \in Seq(TextLine)
  BY <1>3, SequenceTypes DEF TypeOK
<1>5. Len(typed') = L + 1 /\ DOMAIN typed' = 1..(L + 1) /\ \A i \in 1..L : typed'[i] = typed[i]
  BY <1>3, <1>4, AppendProperties, LenProperties DEF GetLine, TypeOK
<1> DEFINE size == typed'[L + 1].size
<1>6. /\ size \in Nat /\ msg \in Seq(Byte) /\ Len(msg) = size + 1
      /\ \A p \in 1..(size + 1) : msg[p] = [line |-> L + 1, pos |-> p]
  <2>1. L + 1 \in DOMAIN typed'
    BY <1>4, <1>5
  <2> HIDE DEF L
  <2> QED
    BY <1>4, <2>1, MessageElements
<1>7. Sent = pipe /\ Sent' = pipe \o msg
  BY <1>3, <1>4, <1>5, ConcatEmptySeq DEF Sent, GetLine
<1> HIDE DEF msg, size
<1>8. /\ Len(pipe \o msg) = m + size + 1
      /\ \A i \in 1..(m + size + 1) : (pipe \o msg)[i] = IF i <= m THEN pipe[i] ELSE msg[i - m]
  <2>1. /\ Len(pipe \o msg) = m + Len(msg)
        /\ \A i \in 1..(m + Len(msg)) :
             (pipe \o msg)[i] = IF i <= m THEN pipe[i] ELSE msg[i - m]
    BY <1>4, <1>6, ConcatProperties
  <2>2. m + Len(msg) = m + size + 1
    BY <1>4, <1>6
  <2> QED
    BY <2>1, <2>2
<1>9. /\ \A i \in 1..m : Sent'[i] = pipe[i]
      /\ \A p \in 1..(size + 1) : Sent'[m + p] = [line |-> L + 1, pos |-> p]
      /\ Len(Sent') = m + size + 1
  <2>1. \A i \in 1..m : Sent'[i] = pipe[i]
    BY <1>4, <1>6, <1>7, <1>8
  <2>2. ASSUME NEW p \in 1..(size + 1) PROVE Sent'[m + p] = [line |-> L + 1, pos |-> p]
    <3>1. m + p \in 1..(m + size + 1) /\ ~(m + p <= m) /\ (m + p) - m = p
      BY <1>4, <1>6
    <3>2. Sent'[m + p] = msg[p]
      BY <1>7, <1>8, <3>1
    <3> QED
      BY <1>6, <3>2
  <2> QED
    BY <1>7, <1>8, <2>1, <2>2
<1>10. \A b : b.line \in 1..L => (Closes(typed', b) <=> Closes(typed, b))
  BY <1>5 DEF Closes
<1>11. Running(typed, pipe, m) /\ (pipe # <<>> => Closes(typed, pipe[m]))
  BY <1>7 DEF TextInv, SentInv
<1>12. m > 0 => Closes(typed', Sent'[m])
  <2> SUFFICES ASSUME m > 0 PROVE Closes(typed', Sent'[m])
    OBVIOUS
  <2>1. m \in 1..m /\ pipe # <<>>
    BY <1>4, EmptySeq
  <2>2. pipe[m].line \in 1..L /\ Closes(typed, pipe[m]) /\ Sent'[m] = pipe[m]
    BY <1>4, <1>9, <1>11, <2>1 DEF Running
  <2> QED
    BY <1>10, <2>2
<1>13. Running(typed', Sent', Len(Sent'))
  <2> SUFFICES ASSUME NEW k \in 1..(m + size + 1)
               PROVE  /\ Sent'[k].line \in 1..(L + 1)
                      /\ \A j \in 1..k :
                           \/ Sent'[k].line = Sent'[j].line /\ Sent'[k].pos = Sent'[j].pos + (k - j)
                           \/ \E i \in j..(k - 1) : Closes(typed', Sent'[i])
    BY <1>5, <1>9 DEF Running
  <2>1. CASE k <= m
    <3>1. k \in 1..m
      BY <1>4, <2>1
    <3>2. Sent'[k] = pipe[k] /\ pipe[k].line \in 1..L
      BY <1>4, <1>9, <1>11, <3>1 DEF Running
    <3>3. ASSUME NEW j \in 1..k
          PROVE  \/ Sent'[k].line = Sent'[j].line /\ Sent'[k].pos = Sent'[j].pos + (k - j)
                 \/ \E i \in j..(k - 1) : Closes(typed', Sent'[i])
      <4>1. j \in 1..m /\ Sent'[j] = pipe[j]
        BY <1>4, <1>9, <3>1
      <4>2. CASE pipe[k].line = pipe[j].line /\ pipe[k].pos = pipe[j].pos + (k - j)
        BY <3>2, <4>1, <4>2
      <4>3. CASE \E i \in j..(k - 1) : Closes(typed, pipe[i])
        <5>1. PICK i \in j..(k - 1) : Closes(typed, pipe[i])
          BY <4>3
        <5>2. i \in 1..m
          BY <1>4, <3>1, <4>1, <5>1
        <5>3. Sent'[i] = pipe[i] /\ pipe[i].line \in 1..L
          BY <1>4, <1>9, <1>11, <5>2 DEF Running
        <5>4. Closes(typed', Sent'[i])
          BY <1>10, <5>1, <5>3
        <5> QED
          BY <5>1, <5>4
      <4> QED
        BY <1>11, <3>1, <4>2, <4>3 DEF Running
    <3> QED
      BY <1>4, <3>2, <3>3
  <2>2. CASE k > m
    <3>1. k - m \in 1..(size + 1) /\ k = m + (k - m)
      BY <1>4, <1>6, <2>2
    <3>2. Sent'[k] = [line |-> L + 1, pos |-> k - m]
      BY <1>9, <3>1
    <3>3. ASSUME NEW j \in 1..k
          PROVE  \/ Sent'[k].line = Sent'[j].line /\ Sent'[k].pos = Sent'[j].pos + (k - j)
                 \/ \E i \in j..(k - 1) : Closes(typed', Sent'[i])
      <4>1. CASE j > m
        <5>1. j - m \in 1..(size + 1) /\ j = m + (j - m) /\ k - m = (j - m) + (k - j)
          BY <1>4, <1>6, <4>1
        <5>2. Sent'[j] = [line |-> L + 1, pos |-> j - m]
          BY <1>9, <5>1
        <5> QED
          BY <3>2, <5>1, <5>2
      <4>2. CASE j <= m
        <5>1. m \in j..(k - 1) /\ m > 0
          BY <1>4, <2>2, <4>2
        <5> QED
          BY <1>12, <5>1
      <4> QED
        BY <1>4, <4>1, <4>2
    <3> QED
      BY <1>4, <3>2, <3>3
  <2> QED
    BY <1>4, <2>1, <2>2
<1>14. Closes(typed', Sent'[Len(Sent')])
  <2>1. size + 1 \in 1..(size + 1) /\ m + (size + 1) = m + size + 1
    BY <1>4, <1>6
  <2>2. Sent'[Len(Sent')] = [line |-> L + 1, pos |-> size + 1]
    BY <1>9, <2>1
  <2>3. L + 1 # 0
    BY <1>4
  <2> QED
    BY <2>2, <2>3 DEF Closes, size
<1>15. SentInv'
  BY <1>13, <1>14 DEF SentInv, GetLine
<1> QED
  BY <1>2, <1>15 DEF TextInv

\* A write moves bytes into the pipe; on their way they remain the same.
LEMMA WriteSent ==
  ASSUME TypeOK, Write
  PROVE  Sent' = Sent /\ (ppc' # "write" => unsent' = <<>>)
<1> DEFINE room == PipeSize - Len(pipe)
           k == IF Len(unsent) < room THEN Len(unsent) ELSE room
           put == SubSeq(unsent, 1, k)
           rest == SubSeq(unsent, k + 1, Len(unsent))
<1>1. /\ pipe \in Seq(Byte) /\ unsent \in Seq(Byte) /\ Len(unsent) \in Nat
      /\ Len(pipe) \in Nat /\ PipeSize \in Nat /\ Len(pipe) < PipeSize
  BY SequenceTypes DEF Write, PutSome
<1>2. k \in 0..Len(unsent)
  BY <1>1
<1>3. /\ pipe' = pipe \o put /\ unsent' = rest
      /\ ppc' = IF k < Len(unsent) THEN "write" ELSE "release"
  BY DEF Write, PutSome
<1> HIDE DEF k
<1>4. /\ put \in Seq(Byte) /\ rest \in Seq(Byte) /\ put \o rest = unsent
      /\ Len(rest) = Len(unsent) - k
  BY <1>1, <1>2, SplitFacts, SplitElements
<1> HIDE DEF put, rest
<1>5. Sent' = Sent
  <2>1. Sent' = (pipe \o put) \o rest
    BY <1>3 DEF Sent
  <2>2. pipe \in Seq(Byte) /\ put \in Seq(Byte) /\ rest \in Seq(Byte)
    BY <1>1, <1>4
  <2>3. (pipe \o put) \o rest = pipe \o (put \o rest)
    BY ONLY <2>2, Regrouped
  <2> QED
    BY <1>4, <2>1, <2>3 DEF Sent
<1>6. ppc' # "write" => unsent' = <<>>
  BY <1>1, <1>2, <1>3, <1>4, EmptySeq
<1> QED
  BY <1>5, <1>6

\* The client waits during a write.
LEMMA WriteText == IInv /\ TextInv /\ Write => TextInv'
<1> SUFFICES ASSUME IInv, TextInv, Write PROVE TextInv'
  OBVIOUS
<1>1. PICK n \in 0..MaxAdjust : ServerBusy(n)
  BY DEF IInv, TurnInv, Session, ServerFirst, ClientFirst, ClientBusy, Refused, Write,
         PutSome
<1>2. BufferInv' /\ Unmixed'
  BY <1>1 DEF BufferInv, ServerBusy, TextInv, Unmixed, Write, PutSome
<1>3. Sent' = Sent /\ (ppc' # "write" => unsent' = <<>>) /\ UNCHANGED typed
  BY WriteSent DEF IInv, Write, PutSome
<1>4. SentInv'
  BY <1>3 DEF TextInv, SentInv
<1> QED
  BY <1>2, <1>4 DEF TextInv

\* What is read at a time ends with a NUL, or there is more than the buffer holds.
LEMMA ReadText == IInv /\ TextInv /\ Read => TextInv'
<1> SUFFICES ASSUME IInv, TextInv, Read PROVE TextInv'
  OBVIOUS
<1>1. Session
  BY ChildInSession DEF Read
<1>2. PICK n \in 0..MaxAdjust : ClientBusy(n)
  BY <1>1 DEF IInv, TurnInv, ServerFirst, ServerBusy, ClientFirst, Refused, Read
<1> DEFINE k == IF Len(pipe) < BUFSIZE THEN Len(pipe) ELSE BUFSIZE
           got == SubSeq(pipe, 1, k)
           rest == SubSeq(pipe, k + 1, Len(pipe))
           kept == SubSeq(buf, k + 1, BUFSIZE)
<1>3. /\ pipe \in Seq(Byte) /\ buf \in Seq(Byte) /\ Len(buf) = BUFSIZE /\ pipe # <<>>
      /\ Len(pipe) \in Nat \ {0} /\ BUFSIZE \in Nat \ {0}
  BY SequenceTypes, EmptySeq DEF IInv, Read
<1>4. unsent = <<>> /\ unsent' = <<>> /\ Sent = pipe /\ Sent' = pipe'
  <2>1. unsent = <<>> /\ unsent' = <<>>
    BY <1>2 DEF TextInv, SentInv, ClientBusy, Read
  <2>2. pipe' \in Seq(Byte)
    BY ReadStep DEF IInv, TypeOK
  <2> QED
    BY <1>3, <2>1, <2>2, ConcatEmptySeq DEF Sent
<1>5. k \in 1..Len(pipe) /\ k \in 1..BUFSIZE /\ (k < BUFSIZE => k = Len(pipe))
  BY <1>3
<1>6. buf' = got \o kept /\ pipe' = rest /\ UNCHANGED <<typed, shown, ppc>>
  BY DEF Read
<1> HIDE DEF k
<1>7. /\ got \in Seq(Byte) /\ Len(got) = k /\ rest \in Seq(Byte) /\ Len(rest) = Len(pipe) - k
      /\ \A i \in 1..k : got[i] = pipe[i]
      /\ \A i \in 1..(Len(pipe) - k) : rest[i] = pipe[k + i]
  BY <1>3, <1>5, SplitFacts, SplitElements
<1>8. kept \in Seq(Byte) /\ Len(kept) = BUFSIZE - k
  BY <1>3, <1>5, SplitFacts
<1> HIDE DEF got, rest, kept
<1>9. \A i \in 1..k : buf'[i] = pipe[i]
  <2>1. \A i \in 1..(Len(got) + Len(kept)) :
          (got \o kept)[i] = IF i <= Len(got) THEN got[i] ELSE kept[i - Len(got)]
    BY <1>7, <1>8, ConcatProperties
  <2>2. \A i \in 1..k : i \in 1..(Len(got) + Len(kept)) /\ i <= Len(got)
    BY <1>3, <1>5, <1>7, <1>8
  <2> QED
    BY <1>6, <1>7, <2>1, <2>2
<1>10. Running(typed, pipe, Len(pipe)) /\ Closes(typed, pipe[Len(pipe)])
  BY <1>3, <1>4 DEF TextInv, SentInv
<1>11. Running(typed, buf', k)
  <2>1. ASSUME NEW i \in 1..k
        PROVE  /\ buf'[i].line \in DOMAIN typed
               /\ \A j \in 1..i :
                    \/ buf'[i].line = buf'[j].line /\ buf'[i].pos = buf'[j].pos + (i - j)
                    \/ \E h \in j..(i - 1) : Closes(typed, buf'[h])
    <3>1. i \in 1..Len(pipe) /\ (\A j \in 1..i : j \in 1..k)
          /\ (\A j \in 1..i : \A h \in j..(i - 1) : h \in 1..k)
      BY <1>3, <1>5
    <3> QED
      BY <1>9, <1>10, <3>1 DEF Running
  <2> QED
    BY <2>1 DEF Running
<1>12. k < BUFSIZE => Closes(typed, buf'[k])
  BY <1>5, <1>9, <1>10
<1>13. BufferInv'
  BY <1>5, <1>6, <1>11, <1>12 DEF BufferInv
<1>14. Running(typed, rest, Len(rest))
  <2>1. ASSUME NEW i \in 1..Len(rest)
        PROVE  /\ rest[i].line \in DOMAIN typed
               /\ \A j \in 1..i :
                    \/ rest[i].line = rest[j].line /\ rest[i].pos = rest[j].pos + (i - j)
                    \/ \E h \in j..(i - 1) : Closes(typed, rest[h])
    <3>1. k + i \in 1..Len(pipe) /\ i \in 1..(Len(pipe) - k)
      BY <1>3, <1>5, <1>7
    <3>2. rest[i] = pipe[k + i] /\ pipe[k + i].line \in DOMAIN typed
      BY <1>7, <1>10, <3>1 DEF Running
    <3>3. ASSUME NEW j \in 1..i
          PROVE  \/ rest[i].line = rest[j].line /\ rest[i].pos = rest[j].pos + (i - j)
                 \/ \E h \in j..(i - 1) : Closes(typed, rest[h])
      <4>1. /\ k + j \in 1..(k + i) /\ j \in 1..(Len(pipe) - k)
            /\ (k + i) - (k + j) = i - j
        BY <1>3, <1>5, <3>1
      <4>2. PICK u \in 1..Len(pipe), v \in 1..Len(pipe) : u = k + i /\ v = k + j /\ v \in 1..u
        BY <3>1, <4>1
      <4>3. rest[i] = pipe[u] /\ rest[j] = pipe[v] /\ u - v = i - j
        BY <1>7, <3>2, <4>1, <4>2
      <4>4. \/ pipe[u].line = pipe[v].line /\ pipe[u].pos = pipe[v].pos + (u - v)
            \/ \E h \in v..(u - 1) : Closes(typed, pipe[h])
        BY <1>10, <4>2 DEF Running
      <4>5. CASE \E h \in v..(u - 1) : Closes(typed, pipe[h])
        <5>1. PICK h \in v..(u - 1) : Closes(typed, pipe[h])
          BY <4>5
        <5>2. /\ h - k \in j..(i - 1) /\ h - k \in 1..(Len(pipe) - k) /\ k + (h - k) = h
          BY <1>3, <1>5, <3>1, <4>2, <5>1
        <5>3. rest[h - k] = pipe[h]
          BY <1>7, <5>2
        <5> QED
          BY <5>1, <5>2, <5>3
      <4> QED
        BY <4>3, <4>4, <4>5
    <3> QED
      BY <3>2, <3>3
  <2> QED
    BY <2>1 DEF Running
<1>15. rest # <<>> => Closes(typed, rest[Len(rest)])
  <2> SUFFICES ASSUME rest # <<>> PROVE Closes(typed, rest[Len(rest)])
    OBVIOUS
  <2>1. Len(rest) \in Nat \ {0}
    BY <1>7, EmptySeq
  <2>2. Len(rest) \in 1..(Len(pipe) - k) /\ k + Len(rest) = Len(pipe)
    BY <1>3, <1>5, <1>7, <2>1
  <2> QED
    BY <1>7, <1>10, <2>2
<1>16. SentInv'
  BY <1>4, <1>6, <1>14, <1>15 DEF SentInv
<1>17. Unmixed'
  BY <1>6 DEF TextInv, Unmixed
<1> QED
  BY <1>13, <1>16, <1>17 DEF TextInv

\* The text printed from the buffer is a stretch of one line: nothing follows its end but
\* what is behind a full buffer.
OneStretch(text) ==
  \A k \in 1..Len(text) :
    \/ k = Len(text) /\ text[k] = Past
    \/ text[k].line # 0 /\ text[k].line = text[1].line /\ text[k].pos = text[1].pos + k - 1

\* Up to the first NUL of the buffer, or past its end when it has none, one line goes on.
LEMMA PrintedStretch ==
  ASSUME TypeOK, BufferInv, cpc = "print"
  PROVE  CString(buf) \in Seq(Byte) /\ OneStretch(CString(buf))
<1> DEFINE ends == {i \in 1..BUFSIZE : IsNUL(buf[i])}
           first == CHOOSE i \in ends : \A j \in ends : i <= j
<1>1. /\ buf \in Seq(Byte) /\ Len(buf) = BUFSIZE /\ BUFSIZE \in Nat \ {0}
      /\ DOMAIN typed = 1..Len(typed) /\ Len(typed) \in Nat
  BY SequenceTypes
<1>2. PICK n \in 1..BUFSIZE : Running(typed, buf, n) /\ (n < BUFSIZE => Closes(typed, buf[n]))
  BY DEF BufferInv
<1>3. \A b : IsNUL(b) <=> Closes(typed, b)
  BY DEF IsNUL, Closes
<1>4. ASSUME NEW k \in 1..n, \A i \in 1..(k - 1) : i \notin ends
      PROVE  buf[k].line # 0 /\ buf[k].line = buf[1].line /\ buf[k].pos = buf[1].pos + k - 1
  <2>1. buf[k].line \in DOMAIN typed
    BY <1>2 DEF Running
  <2>2. 1 \in 1..k /\ k \in 1..BUFSIZE
    BY <1>1
  <2>3. \/ buf[k].line = buf[1].line /\ buf[k].pos = buf[1].pos + (k - 1)
        \/ \E i \in 1..(k - 1) : Closes(typed, buf[i])
    BY <1>2, <2>2 DEF Running
  <2>4. ~ \E i \in 1..(k - 1) : Closes(typed, buf[i])
    BY <1>1, <1>2, <1>3, <1>4
  <2>5. buf[1] \in Byte
    BY <1>1, ElementOfSeq
  <2>6. buf[1].pos \in Nat
    BY <2>5 DEF Byte
  <2> QED
    BY <1>1, <2>1, <2>3, <2>4, <2>6
<1>5. CASE ends = {}
  <2>1. n = BUFSIZE
    BY <1>1, <1>2, <1>3, <1>5
  <2>2. CString(buf) = Append(buf, Past) /\ Past \in Byte
    BY <1>5 DEF CString, Past, Byte
  <2>3. /\ Append(buf, Past) \in Seq(Byte) /\ Len(Append(buf, Past)) = BUFSIZE + 1
        /\ \A k \in 1..BUFSIZE : Append(buf, Past)[k] = buf[k]
        /\ Append(buf, Past)[BUFSIZE + 1] = Past
    BY <1>1, <2>2, AppendProperties
  <2>4. \A k \in 1..BUFSIZE : /\ buf[k].line # 0 /\ buf[k].line = buf[1].line
                              /\ buf[k].pos = buf[1].pos + k - 1
    BY <1>4, <1>5, <2>1
  <2>5. 1 \in 1..BUFSIZE /\ \A k \in 1..(BUFSIZE + 1) : k \in 1..BUFSIZE \/ k = BUFSIZE + 1
    BY <1>1
  <2> QED
    BY <2>2, <2>3, <2>4, <2>5 DEF OneStretch
<1>6. CASE ends # {}
  <2>1. first \in ends /\ \A j \in ends : first <= j
    <3>1. ends \in SUBSET Nat
      BY <1>1
    <3>2. PICK m \in ends : \A j \in ends : m <= j
      BY <1>6, <3>1, LeastOfNats
    <3> QED
      BY <3>2
  <2>2. CString(buf) = SubSeq(buf, 1, first - 1)
    BY <1>6 DEF CString
  <2> HIDE DEF first
  <2>3. first \in 1..BUFSIZE /\ first - 1 \in 0..Len(buf) /\ first - 1 <= n
    BY <1>1, <1>2, <1>3, <2>1
  <2>4. /\ SubSeq(buf, 1, first - 1) \in Seq(Byte) /\ Len(SubSeq(buf, 1, first - 1)) = first - 1
        /\ \A k \in 1..(first - 1) : SubSeq(buf, 1, first - 1)[k] = buf[k]
    BY <1>1, <2>3, SplitFacts, SplitElements
  <2>5. ASSUME NEW k \in 1..(first - 1)
        PROVE  buf[k].line # 0 /\ buf[k].line = buf[1].line /\ buf[k].pos = buf[1].pos + k - 1
    <3>1. k \in 1..n /\ \A i \in 1..(k - 1) : i \notin ends
      BY <1>1, <2>1, <2>3
    <3> QED
      BY <1>4, <3>1
  <2>6. \A k \in 1..(first - 1) : 1 \in 1..(first - 1)
    BY <1>1, <2>3
  <2> QED
    BY <2>2, <2>4, <2>5, <2>6 DEF OneStretch
<1> QED
  BY <1>5, <1>6

\* One more stretch is printed.
LEMMA ShowText == IInv /\ TextInv /\ Show => TextInv'
<1> SUFFICES ASSUME IInv, TextInv, Show PROVE TextInv'
  OBVIOUS
<1>1. SentInv' /\ BufferInv'
  BY DEF TextInv, SentInv, BufferInv, Sent, Show
<1>2. CString(buf) \in Seq(Byte) /\ OneStretch(CString(buf))
  BY PrintedStretch DEF IInv, TextInv, Show
<1>3. shown \in Seq(Seq(Byte)) /\ \A i \in 1..Len(shown) : OneStretch(shown[i])
  BY LenProperties DEF IInv, TypeOK, TextInv, Unmixed, OneStretch
<1>4. \A i \in 1..Len(shown') : OneStretch(shown'[i])
  <2>1. /\ Len(shown') = Len(shown) + 1 /\ Len(shown) \in Nat
        /\ shown'[Len(shown) + 1] = CString(buf)
        /\ \A i \in 1..Len(shown) : shown'[i] = shown[i]
    BY <1>2, <1>3, AppendProperties, LenProperties DEF Show
  <2>2. \A i \in 1..Len(shown') : i \in 1..Len(shown) \/ i = Len(shown) + 1
    BY <2>1
  <2> QED
    BY <1>2, <1>3, <2>1, <2>2
<1>5. DOMAIN shown' = 1..Len(shown')
  BY ShowStep, LenProperties DEF IInv, TypeOK
<1>6. Unmixed'
  BY <1>4, <1>5 DEF Unmixed, OneStretch
<1> QED
  BY <1>1, <1>6 DEF TextInv

\* Every step keeps the bytes in order.
LEMMA TextKept == IInv /\ TextInv /\ [Next]_vars => TextInv'
<1> SUFFICES ASSUME IInv, TextInv, [Next]_vars PROVE TextInv'
  OBVIOUS
<1>1. ASSUME UNCHANGED vars PROVE TextInv'
  BY <1>1, TextFrame DEF vars
<1>2. CASE Setup
  BY <1>2, TextFrame DEF Setup
<1>3. CASE WaitServer \/ RaiseServer \/ ReleaseClient \/ Kill \/ RemoveSet
  BY <1>3, TextFrame
     DEF WaitServer, WaitServerNever, RaiseServer, ReleaseClient, Kill, RemoveSet
<1>4. CASE WaitClient \/ RaiseClient \/ ReleaseServer \/ Die
  BY <1>4, TextFrame DEF WaitClient, WaitClientNever, RaiseClient, ReleaseServer, Die
<1> QED
  BY <1>1, <1>2, <1>3, <1>4, GetLineText, WriteText, ReadText, ShowText
     DEF Next, Parent, Child, Ended

\* At the start nothing is on its way.
LEMMA InitText == Init => TextInv
<1> SUFFICES ASSUME Init PROVE TextInv
  OBVIOUS
<1>1. Sent = <<>> /\ Len(Sent) = 0
  BY ConcatEmptySeq, EmptySeq DEF Init, Sent
<1> QED
  BY <1>1 DEF Init, TextInv, SentInv, BufferInv, Unmixed, Running

\* Whatever the lengths of the lines, what the client prints at a time is a stretch of one
\* line, although the buffer is never cleared and long lines leave bytes in the pipe.
THEOREM StretchesPrinted == Spec => []Unmixed
<1>1. TextInv => Unmixed
  BY DEF TextInv
<1> QED
  BY <1>1, InitText, TextKept, InitTyped, StepKeeps, PTL DEF Spec

-----------------------------------------------------------------------------
(****************************************************************************)
(* While the lines fit into the buffer, the program refines LineEcho.  The  *)
(* argument: whose turn it is tells where the line is that was typed last - *)
(* printed, with nothing left in the pipe; on its way, and nothing else; or *)
(* at the front of the buffer.                                              *)
(****************************************************************************)

\* Every line is printed and nothing is on its way.
Answered == Len(shown) = Len(typed) /\ pipe = <<>>

\* Every line but the last is printed; the bytes s are the last one, with its NUL.
Pending(s) == Len(typed) = Len(shown) + 1 /\ s = Message(typed, Len(typed))

\* Of the last line typed, the size with its NUL.
LastSize == typed[Len(typed)].size + 1

\* Where the last line is, by the two programs and the semaphores between them.
ServerNext == (Session /\ sem.SERVER = 0) \/ ppc \in {"setup", "raise", "input"} \/ cpc = "release"
Writing == ppc \in {"write", "release"}
ClientNext == Session /\ (sem.CLIENT = 0 \/ cpc = "read")
Printing == cpc = "print"

InStep ==
  /\ Len(shown) <= Len(typed)
  /\ \A i \in 1..Len(shown) : shown[i] = Text(typed, i)
  /\ ServerNext => Answered
  /\ Writing => Pending(Sent)
  /\ ClientNext => Pending(pipe)
  /\ Printing => Pending(SubSeq(buf, 1, LastSize)) /\ pipe = <<>>

EchoInv == Fitting => InStep

-----------------------------------------------------------------------------

\* The lines, and the texts printed.
LEMMA LineTypes ==
  ASSUME TypeOK
  PROVE  /\ typed \in Seq(TextLine) /\ Len(typed) \in Nat /\ DOMAIN typed = 1..Len(typed)
         /\ shown \in Seq(Seq(Byte)) /\ Len(shown) \in Nat /\ DOMAIN shown = 1..Len(shown)
BY LenProperties DEF TypeOK

\* A semop leaves the other semaphore as it is.
LEMMA OtherSemaphore ==
  ASSUME TypeOK, NEW p \in {"parent", "child"}, NEW s \in {"CLIENT", "SERVER"},
         NEW t \in {"CLIENT", "SERVER"}, NEW d \in {-1, 1}, AddTo(p, s, d), t # s
  PROVE  sem'[t] = sem[t]
BY DEF AddTo, TypeOK

\* A step after which the last line is where it was.
LEMMA EchoFrame ==
  ASSUME EchoInv, UNCHANGED <<typed, shown, pipe, unsent, buf>>,
         ServerNext' => ServerNext, Writing' => Writing, Printing' => Printing,
         ClientNext' => ClientNext \/ (Writing /\ Sent = pipe)
  PROVE  EchoInv'
BY DEF EchoInv, Fitting, InStep, Answered, Pending, LastSize, Sent

\* A line more does not change the bytes of the lines before it.
LEMMA TextStays ==
  ASSUME NEW lines \in Seq(TextLine), NEW line \in TextLine, NEW i \in 1..Len(lines)
  PROVE  Text(Append(lines, line), i) = Text(lines, i)
BY AppendProperties DEF Text

\* What is printed from a buffer at whose front there is a line with its NUL.
LEMMA TextPrinted ==
  ASSUME TypeOK, NEW i \in DOMAIN typed, typed[i].size < BUFSIZE,
         SubSeq(buf, 1, typed[i].size + 1) = Message(typed, i)
  PROVE  CString(buf) = Text(typed, i)
<1> DEFINE size == typed[i].size
           ends == {k \in 1..BUFSIZE : IsNUL(buf[k])}
           first == CHOOSE k \in ends : \A j \in ends : k <= j
<1>1. /\ buf \in Seq(Byte) /\ Len(buf) = BUFSIZE /\ BUFSIZE \in Nat \ {0}
      /\ DOMAIN typed = 1..Len(typed) /\ Len(typed) \in Nat /\ typed \in Seq(TextLine)
  BY SequenceTypes
<1>2. /\ size \in Nat
      /\ Text(typed, i) \in Seq(Byte) /\ Len(Text(typed, i)) = size
      /\ \A p \in 1..size : Text(typed, i)[p] = [line |-> i, pos |-> p]
      /\ \A p \in 1..(size + 1) : Message(typed, i)[p] = [line |-> i, pos |-> p]
  BY <1>1, MessageElements
<1>3. size < BUFSIZE /\ SubSeq(buf, 1, size + 1) = Message(typed, i)
  OBVIOUS
<1>4. \A b : IsNUL(b) <=> b.line # 0 /\ b.pos = typed[b.line].size + 1
  BY DEF IsNUL
<1>5. \A p \in 1..(size + 1) : p \in 1..BUFSIZE /\ buf[p] = [line |-> i, pos |-> p]
  <2>1. size + 1 \in 0..Len(buf)
    BY <1>1, <1>2, <1>3
  <2>2. \A p \in 1..(size + 1) : SubSeq(buf, 1, size + 1)[p] = buf[p]
    BY <1>1, <2>1, SplitElements
  <2>3. \A p \in 1..(size + 1) : p \in 1..BUFSIZE
    BY <1>1, <1>2, <1>3
  <2> HIDE DEF size
  <2> QED
    BY <1>2, <1>3, <2>2, <2>3
<1>6. i # 0 /\ typed[i].size = size
  BY <1>1
<1> HIDE DEF size
<1>7. size + 1 \in ends /\ \A j \in ends : size + 1 <= j
  <2>1. size + 1 \in 1..(size + 1)
    BY <1>2
  <2>2. buf[size + 1] = [line |-> i, pos |-> size + 1] /\ size + 1 \in 1..BUFSIZE
    BY <1>5, <2>1
  <2>3. IsNUL(buf[size + 1])
    BY <1>4, <1>6, <2>2
  <2>4. ASSUME NEW j \in ends, j < size + 1 PROVE FALSE
    <3>1. j \in 1..(size + 1) /\ IsNUL(buf[j])
      BY <1>2, <2>4
    <3>2. buf[j] = [line |-> i, pos |-> j]
      BY <1>5, <3>1
    <3> QED
      BY <1>2, <1>4, <1>6, <2>4, <3>1, <3>2
  <2>5. \A j \in ends : j \in Nat
    OBVIOUS
  <2> HIDE DEF ends
  <2>6. \A j \in ends : size + 1 <= j
    BY <1>2, <2>4, <2>5
  <2> QED
    BY <2>2, <2>3, <2>6 DEF ends
<1>8. CString(buf) = SubSeq(buf, 1, first - 1)
  BY <1>7 DEF CString
<1>9. first = size + 1
  <2>1. first \in ends /\ \A j \in ends : first <= j
    BY <1>7
  <2>2. first \in Nat
    BY <2>1
  <2> HIDE DEF first, ends
  <2>3. first <= size + 1 /\ size + 1 <= first
    BY <1>7, <2>1
  <2> QED
    BY <1>2, <2>2, <2>3
<1> HIDE DEF first, ends
<1>10. /\ SubSeq(buf, 1, size) \in Seq(Byte) /\ Len(SubSeq(buf, 1, size)) = size
       /\ \A p \in 1..size : SubSeq(buf, 1, size)[p] = buf[p]
  <2>1. size \in 0..Len(buf)
    BY <1>1, <1>2, <1>3
  <2> QED
    BY <1>1, <2>1, SplitFacts, SplitElements
<1>11. \A p \in 1..size : SubSeq(buf, 1, size)[p] = Text(typed, i)[p]
  <2>1. \A p \in 1..size : p \in 1..(size + 1)
    BY <1>2
  <2> QED
    BY <1>2, <1>5, <1>10, <2>1
<1>12. SubSeq(buf, 1, size) = Text(typed, i)
  BY <1>2, <1>10, <1>11, SeqEqual
<1> QED
  BY <1>2, <1>8, <1>9, <1>12

-----------------------------------------------------------------------------

\* What goes to the front of the buffer, when it is all that was in the pipe.
LEMMA FrontRead ==
  ASSUME NEW S, NEW p \in Seq(S), NEW b \in Seq(S), NEW k \in 0..Len(b), k = Len(p)
  PROVE  SubSeq(SubSeq(p, 1, k) \o SubSeq(b, k + 1, Len(b)), 1, k) = p
<1> DEFINE first == SubSeq(p, 1, k)
           rest == SubSeq(b, k + 1, Len(b))
           all == first \o rest
           front == SubSeq(all, 1, k)
<1>1. k \in Nat /\ Len(b) \in Nat /\ k \in 0..Len(p)
  BY LenProperties
<1>2. /\ first \in Seq(S) /\ Len(first) = k
      /\ rest \in Seq(S) /\ Len(rest) = Len(b) - k
      /\ \A i \in 1..k : first[i] = p[i]
  BY <1>1, SplitFacts, SplitElements
<1> HIDE DEF first, rest
<1>3. /\ all \in Seq(S) /\ Len(all) = Len(first) + Len(rest)
      /\ \A i \in 1..(Len(first) + Len(rest)) :
           all[i] = IF i <= Len(first) THEN first[i] ELSE rest[i - Len(first)]
  BY <1>2, ConcatProperties
<1>4. k \in 0..Len(all) /\ \A i \in 1..k : all[i] = p[i]
  BY <1>1, <1>2, <1>3
<1> HIDE DEF all
<1>5. /\ front \in Seq(S) /\ Len(front) = k
      /\ \A i \in 1..k : front[i] = all[i]
  BY <1>3, <1>4, SplitFacts, SplitElements
<1> HIDE DEF front
<1>6. front = p
  BY <1>1, <1>4, <1>5, SeqEqual
<1> QED
  BY <1>6 DEF front, all, first, rest

\* The steps that move no line.
LEMMA EchoFrames ==
  ASSUME IInv, TextInv, EchoInv,
         \/ Setup \/ WaitServer \/ RaiseServer \/ ReleaseClient \/ Kill \/ RemoveSet
         \/ WaitClient \/ RaiseClient \/ ReleaseServer \/ Die
  PROVE  EchoInv'
<1> USE DEF ServerNext, Writing, ClientNext, Printing, Session
<1>1. TypeOK /\ TurnInv
  BY DEF IInv
<1>2. CASE Setup
  BY <1>1, <1>2, EchoFrame DEF Setup, FirstValues, TurnInv
<1>3. CASE WaitServer
  BY <1>3, EchoFrame DEF WaitServer, WaitServerNever, IsZero
<1>4. CASE RaiseServer
  <2>1. PICK n \in 0..MaxAdjust : ServerFirst(n)
    BY <1>1, <1>4 DEF TurnInv, ServerBusy, ClientFirst, ClientBusy, Refused, RaiseServer
  <2>2. sem'.CLIENT = sem.CLIENT
    BY <1>1, <1>4, OtherSemaphore DEF RaiseServer
  <2> QED
    BY <1>4, <2>1, <2>2, EchoFrame DEF RaiseServer, ServerFirst
<1>5. CASE ReleaseClient
  <2>1. PICK n \in 0..MaxAdjust : ServerBusy(n)
    BY <1>1, <1>5 DEF TurnInv, ServerFirst, ClientFirst, ClientBusy, Refused, ReleaseClient
  <2>2. sem'.SERVER = sem.SERVER
    BY <1>1, <1>5, OtherSemaphore DEF ReleaseClient
  <2>3. pipe \in Seq(Byte) /\ unsent = <<>>
    BY <1>5, SequenceTypes DEF IInv, TextInv, SentInv, ReleaseClient
  <2>4. Sent = pipe
    BY <2>3, ConcatEmptySeq DEF Sent
  <2> QED
    BY <1>5, <2>1, <2>2, <2>4, EchoFrame DEF ReleaseClient, ServerBusy
<1>6. CASE Kill
  BY <1>6, EchoFrame DEF Kill
<1>7. CASE RemoveSet
  BY <1>7, EchoFrame DEF RemoveSet
<1>8. CASE WaitClient
  BY <1>8, EchoFrame DEF WaitClient, WaitClientNever
<1>9. CASE RaiseClient
  <2>1. sem'.SERVER = sem.SERVER
    BY <1>1, <1>9, OtherSemaphore DEF RaiseClient
  <2>2. Session => sem.CLIENT = 0
    BY <1>1, <1>9
       DEF TurnInv, ServerFirst, ServerBusy, ClientFirst, ClientBusy, Refused, RaiseClient
  <2> QED
    BY <1>9, <2>1, <2>2, EchoFrame DEF RaiseClient
<1>10. CASE ReleaseServer
  <2>1. sem'.CLIENT = sem.CLIENT
    BY <1>1, <1>10, OtherSemaphore DEF ReleaseServer
  <2> QED
    BY <1>10, <2>1, EchoFrame DEF ReleaseServer
<1>11. CASE Die
  BY <1>1, <1>11, EchoFrame DEF Die, TurnInv
<1> QED
  BY <1>2, <1>3, <1>4, <1>5, <1>6, <1>7, <1>8, <1>9, <1>10, <1>11

\* The next line is taken when the one before it is printed and the pipe empty.
LEMMA GetLineEcho ==
  ASSUME IInv, TextInv, EchoInv, GetLine
  PROVE  EchoInv' /\ (Fitting' => Fitting /\ Answered)
<1>1. PICK n \in 0..MaxAdjust : ServerBusy(n)
  BY DEF IInv, TurnInv, Session, ServerFirst, ClientFirst, ClientBusy, Refused, GetLine
<1>2. /\ typed \in Seq(TextLine) /\ Len(typed) \in Nat /\ DOMAIN typed = 1..Len(typed)
      /\ user_input' \in TextLine /\ TypeOK'
  BY GetLineStep, LineTypes DEF IInv, TypeOK
<1>3. /\ Len(typed') = Len(typed) + 1 /\ DOMAIN typed' = 1..(Len(typed) + 1)
      /\ \A i \in 1..Len(typed) : typed'[i] = typed[i]
  BY <1>2, AppendProperties, LenProperties DEF GetLine
<1>4. \A i \in 1..Len(typed) : Text(typed', i) = Text(typed, i)
  BY <1>2, TextStays DEF GetLine
<1> SUFFICES ASSUME Fitting' PROVE InStep' /\ Fitting /\ Answered
  BY DEF EchoInv
<1>5. Fitting
  BY <1>2, <1>3 DEF Fitting
<1>6. InStep /\ Answered
  BY <1>5 DEF EchoInv, InStep, ServerNext, GetLine
<1>7. Sent' = Message(typed', Len(typed'))
  <2>1. PICK i \in DOMAIN typed' : i = Len(typed')
    BY <1>2, <1>3
  <2>2. Message(typed', i) \in Seq(Byte)
    BY <1>2, MessageElements DEF TypeOK
  <2>3. pipe' = <<>> /\ unsent' = Message(typed', i)
    BY <1>6, <2>1 DEF Answered, GetLine
  <2> QED
    BY <2>1, <2>2, <2>3, ConcatEmptySeq DEF Sent
<1>8. \A i \in 1..Len(shown) : shown[i] = Text(typed', i)
  BY <1>4, <1>6 DEF InStep, Answered
<1>9. ppc' = "write" /\ cpc' = "wait" /\ sem'.CLIENT = 1 /\ sem'.SERVER = 1 /\ shown' = shown
  BY <1>1 DEF GetLine, ServerBusy
<1>10. Len(typed') = Len(shown') + 1 /\ Len(shown') <= Len(typed')
  BY <1>2, <1>3, <1>6, <1>9 DEF Answered
<1>11. InStep'
  BY <1>7, <1>8, <1>9, <1>10
     DEF InStep, ServerNext, Writing, ClientNext, Printing, Pending
<1> QED
  BY <1>5, <1>6, <1>11

\* A write moves bytes of the line into the pipe; the client waits meanwhile.
LEMMA WriteEcho ==
  ASSUME IInv, TextInv, EchoInv, Write PROVE EchoInv'
<1>1. PICK n \in 0..MaxAdjust : ServerBusy(n)
  BY DEF IInv, TurnInv, Session, ServerFirst, ClientFirst, ClientBusy, Refused, Write, PutSome
<1>2. /\ ppc = "write" /\ ppc' \in {"write", "release"} /\ cpc' = "wait"
      /\ sem'.CLIENT = 1 /\ sem'.SERVER = 1 /\ UNCHANGED <<typed, shown, buf>>
  BY <1>1 DEF ServerBusy, Write, PutSome
<1>3. Sent' = Sent
  BY WriteSent DEF IInv
<1> QED
  BY <1>2, <1>3
     DEF EchoInv, Fitting, InStep, ServerNext, Writing, ClientNext, Printing, Pending, Session

\* The client reads the whole line with its NUL, which fits into the buffer.
LEMMA ReadEcho ==
  ASSUME IInv, TextInv, EchoInv, Read PROVE EchoInv'
<1>1. Session
  BY ChildInSession DEF Read
<1>2. PICK n \in 0..MaxAdjust : ClientBusy(n)
  BY <1>1 DEF IInv, TurnInv, ServerFirst, ServerBusy, ClientFirst, Refused, Read
<1>3. /\ pipe \in Seq(Byte) /\ buf \in Seq(Byte) /\ Len(buf) = BUFSIZE
      /\ BUFSIZE \in Nat \ {0} /\ Len(pipe) \in Nat
      /\ typed \in Seq(TextLine) /\ Len(typed) \in Nat /\ DOMAIN typed = 1..Len(typed)
      /\ Len(shown) \in Nat
  BY SequenceTypes, LineTypes DEF IInv
<1>4. /\ ppc' \in {"wait", "kill"} /\ cpc = "read" /\ cpc' = "print"
      /\ sem'.CLIENT = 1 /\ sem'.SERVER = 1 /\ UNCHANGED <<typed, shown>>
  BY <1>2 DEF ClientBusy, Read
<1> SUFFICES ASSUME Fitting PROVE InStep'
  BY <1>4 DEF EchoInv, Fitting
<1>5. InStep /\ Pending(pipe)
  BY <1>1, <1>4 DEF EchoInv, InStep, ClientNext
<1> DEFINE size == typed[Len(typed)].size
<1>6. Len(typed) \in DOMAIN typed /\ size < BUFSIZE
  BY <1>3, <1>5 DEF Pending, Fitting
<1>7. size \in Nat /\ Len(pipe) = size + 1
  <2>1. PICK i \in DOMAIN typed : i = Len(typed)
    BY <1>6
  <2>2. typed[i].size \in Nat /\ Len(Message(typed, i)) = typed[i].size + 1
    BY <1>3, MessageElements
  <2> QED
    BY <1>5, <2>1, <2>2 DEF Pending
<1> HIDE DEF size
<1> DEFINE k == IF Len(pipe) < BUFSIZE THEN Len(pipe) ELSE BUFSIZE
<1>8. k = Len(pipe) /\ k \in 0..Len(buf)
  BY <1>3, <1>6, <1>7
<1>9. buf' = SubSeq(pipe, 1, k) \o SubSeq(buf, k + 1, BUFSIZE)
      /\ pipe' = SubSeq(pipe, k + 1, Len(pipe))
  BY DEF Read
<1> HIDE DEF k
<1>10. pipe' = <<>>
  <2>1. k \in 0..Len(pipe) /\ Len(pipe) - k = 0
    BY <1>3, <1>8
  <2>2. SubSeq(pipe, k + 1, Len(pipe)) \in Seq(Byte) /\ Len(SubSeq(pipe, k + 1, Len(pipe))) = 0
    BY <1>3, <2>1, SplitFacts
  <2> QED
    BY <1>9, <2>2, EmptySeq
<1>11. SubSeq(buf', 1, k) = pipe
  BY <1>3, <1>8, <1>9, FrontRead
<1>12. LastSize' = k
  BY <1>4, <1>7, <1>8 DEF LastSize, size
<1>13. Pending(SubSeq(buf, 1, LastSize))'
  BY <1>4, <1>5, <1>11, <1>12 DEF Pending
<1> QED
  BY <1>4, <1>5, <1>10, <1>13
     DEF InStep, ServerNext, Writing, ClientNext, Printing

\* The line is printed as it was typed.
LEMMA ShowEcho ==
  ASSUME IInv, TextInv, EchoInv, Show
  PROVE  /\ EchoInv'
         /\ Fitting => /\ Len(shown) < Len(typed)
                       /\ shown' = Append(shown, Text(typed, Len(shown) + 1))
<1> SUFFICES ASSUME Fitting
             PROVE  /\ InStep'
                    /\ Len(shown) < Len(typed)
                    /\ shown' = Append(shown, Text(typed, Len(shown) + 1))
  BY DEF EchoInv, Fitting, Show
<1>1. /\ typed \in Seq(TextLine) /\ Len(typed) \in Nat /\ DOMAIN typed = 1..Len(typed)
      /\ shown \in Seq(Seq(Byte)) /\ Len(shown) \in Nat /\ TypeOK
  BY LineTypes DEF IInv
<1>2. InStep /\ Pending(SubSeq(buf, 1, LastSize)) /\ pipe = <<>>
  BY DEF EchoInv, InStep, Printing, Show
<1>3. PICK i \in DOMAIN typed : i = Len(typed) /\ i = Len(shown) + 1
  BY <1>1, <1>2 DEF Pending
<1>4. typed[i].size < BUFSIZE /\ SubSeq(buf, 1, typed[i].size + 1) = Message(typed, i)
  BY <1>2, <1>3 DEF Fitting, Pending, LastSize
<1>5. CString(buf) = Text(typed, i) /\ Text(typed, i) \in Seq(Byte)
  BY <1>1, <1>4, TextPrinted, MessageElements
<1>6. shown' = Append(shown, Text(typed, i)) /\ cpc' = "release"
      /\ UNCHANGED <<ppc, sem, typed, pipe>>
  BY <1>5 DEF Show
<1>7. /\ Len(shown') = Len(shown) + 1 /\ shown'[Len(shown) + 1] = Text(typed, i)
      /\ \A j \in 1..Len(shown) : shown'[j] = shown[j]
  BY <1>1, <1>5, <1>6, AppendProperties
<1>8. \A j \in 1..Len(shown') : shown'[j] = Text(typed', j)
  <2>1. \A j \in 1..Len(shown') : j \in 1..Len(shown) \/ j = Len(shown) + 1
    BY <1>1, <1>7
  <2> QED
    BY <1>2, <1>3, <1>6, <1>7, <2>1 DEF InStep
<1>9. Len(shown') = Len(typed') /\ pipe' = <<>>
  BY <1>2, <1>3, <1>6, <1>7
<1>10. ~Writing' /\ ~ClientNext' /\ ~Printing'
  <2>1. CASE Session
    <3>1. PICK n \in 0..MaxAdjust : ClientBusy(n)
      BY <2>1 DEF IInv, TurnInv, ServerFirst, ServerBusy, ClientFirst, Refused, Show
    <3> QED
      BY <1>6, <3>1 DEF ClientBusy, Writing, ClientNext, Printing
  <2>2. CASE ~Session
    BY <1>6, <2>2 DEF Session, Writing, ClientNext, Printing
  <2> QED
    BY <2>1, <2>2
<1>11. InStep'
  BY <1>1, <1>8, <1>9, <1>10 DEF InStep, Answered
<1> QED
  BY <1>1, <1>3, <1>6, <1>11

\* Every step keeps the last line where the turn tells it is.
LEMMA EchoKept == IInv /\ TextInv /\ EchoInv /\ [Next]_vars => EchoInv'
<1> SUFFICES ASSUME IInv, TextInv, EchoInv, [Next]_vars PROVE EchoInv'
  OBVIOUS
<1>1. ASSUME UNCHANGED vars PROVE EchoInv'
  BY <1>1, EchoFrame DEF vars, ServerNext, Writing, ClientNext, Printing, Session
<1> QED
  BY <1>1, EchoFrames, GetLineEcho, WriteEcho, ReadEcho, ShowEcho
     DEF Next, Parent, Child, Ended

\* A step of the program is one of LineEcho, or none, while the lines fit.
LEMMA StepEchoes ==
  ASSUME IInv, TextInv, EchoInv, [Next]_vars, Fitting'
  PROVE  [Abs!Next]_(Abs!vars)
<1> DEFINE L == Len(typed)
<1>1. /\ typed \in Seq(TextLine) /\ L \in Nat /\ DOMAIN typed = 1..L
      /\ shown \in Seq(Seq(Byte)) /\ Len(shown) \in Nat /\ DOMAIN shown = 1..Len(shown)
      /\ TypeOK
  BY LineTypes DEF IInv
<1>2. /\ DOMAIN Texts = 1..L /\ \A i \in 1..L : Texts[i] = Text(typed, i)
      /\ Texts \in Seq(Seq(Byte)) /\ Len(Texts) = L
  <2>1. \A i \in 1..L : Text(typed, i) \in Seq(Byte)
    BY <1>1, MessageElements
  <2>2. Texts = [i \in 1..L |-> Text(typed, i)]
    BY <1>1 DEF Texts
  <2>3. Texts \in Seq(Seq(Byte))
    BY <1>1, <2>1, <2>2, IsASeq
  <2> HIDE DEF L
  <2>4. DOMAIN Texts = 1..L
    BY <2>2
  <2>5. Len(Texts) = L
    BY <1>1, <2>3, <2>4, LenProperties
  <2> QED
    BY <2>2, <2>3, <2>4, <2>5
<1>3. UNCHANGED <<typed, shown, Ending>> => [Abs!Next]_(Abs!vars)
  BY DEF Abs!vars, Texts
<1>4. UNCHANGED <<typed, shown>> /\ Ending' => [Abs!Next]_(Abs!vars)
  BY DEF Abs!vars, Texts, Abs!Next, Abs!End
<1>5. CASE UNCHANGED vars
  BY <1>3, <1>5 DEF vars, parentVars, Ending
<1>6. CASE Setup \/ WaitServer \/ RaiseServer \/ ReleaseClient \/ Kill \/ RemoveSet \/ Write
  BY <1>3, <1>4, <1>6
     DEF Setup, WaitServer, WaitServerNever, RaiseServer, ReleaseClient, Kill, RemoveSet,
         Write, PutSome, Ending
<1>7. CASE WaitClient \/ RaiseClient \/ Read \/ ReleaseServer \/ Die
  BY <1>3, <1>7
     DEF WaitClient, WaitClientNever, RaiseClient, Read, ReleaseServer, Die, Ending
<1>8. CASE GetLine
  <2>1. Fitting /\ Answered /\ InStep
    BY <1>8, GetLineEcho DEF EchoInv
  <2>2. shown = Texts
    <3>1. Len(shown) = L /\ \A i \in 1..L : shown[i] = Texts[i]
      BY <1>2, <2>1 DEF Answered, InStep
    <3> QED
      BY <1>1, <1>2, <3>1, SeqEqual
  <2>3. user_input' \in TextLine /\ typed' = Append(typed, user_input') /\ UNCHANGED shown
    BY <1>8, GetLineStep DEF GetLine, IInv, TypeOK
  <2>4. /\ Texts' \in Seq(Seq(Byte)) /\ Len(Texts') = L + 1
        /\ \A i \in 1..L : Texts'[i] = Texts[i]
    <3>1. Len(typed') = L + 1 /\ DOMAIN typed' = 1..(L + 1) /\ typed' \in Seq(TextLine)
      BY <1>1, <2>3, AppendProperties, LenProperties
    <3> DEFINE texts == [i \in 1..(L + 1) |-> Text(typed', i)]
    <3>2. Texts' = texts
      BY <3>1 DEF Texts
    <3>3. \A i \in 1..(L + 1) : Text(typed', i) \in Seq(Byte)
      BY <3>1, MessageElements
    <3>4. texts \in Seq(Seq(Byte)) /\ Len(texts) = L + 1
      BY <1>1, <3>3, IsASeq, LenProperties
    <3>5. \A i \in 1..L : i \in 1..(L + 1) /\ Text(typed', i) = Text(typed, i)
      BY <1>1, <2>3, TextStays
    <3>6. \A i \in 1..L : texts[i] = Texts[i]
      BY <1>2, <3>5
    <3> HIDE DEF texts
    <3> QED
      BY <3>2, <3>4, <3>6
  <2>5. SubSeq(Texts', 1, L) = Texts
    <3>1. L \in 0..Len(Texts')
      BY <1>1, <2>4
    <3> DEFINE s == Texts'
    <3> HIDE DEF s
    <3>2. s \in Seq(Seq(Byte)) /\ L \in 0..Len(s) /\ \A i \in 1..L : s[i] = Texts[i]
      BY <2>4, <3>1 DEF s
    <3>3. /\ SubSeq(s, 1, L) \in Seq(Seq(Byte)) /\ Len(SubSeq(s, 1, L)) = L
          /\ \A i \in 1..L : SubSeq(s, 1, L)[i] = s[i]
      BY <3>2, SplitFacts, SplitElements
    <3>4. SubSeq(s, 1, L) = Texts
      BY <1>1, <1>2, <3>2, <3>3, SeqEqual
    <3> QED
      BY <3>4 DEF s
  <2>6. ~Ending /\ ~Ending' /\ Ending' = Ending
    BY <1>8 DEF GetLine, Ending
  <2>7. Len(Texts') = Len(Texts) + 1 /\ SubSeq(Texts', 1, Len(Texts)) = Texts
    BY <1>2, <2>4, <2>5
  <2>8. Abs!Enter
    BY <2>2, <2>3, <2>6, <2>7 DEF Abs!Enter
  <2> QED
    BY <2>8 DEF Abs!Next
<1>9. CASE Show
  <2>1. UNCHANGED <<typed, ppc>> /\ Fitting
    BY <1>9 DEF Show, Fitting
  <2>2. Len(shown) < L /\ shown' = Append(shown, Text(typed, Len(shown) + 1))
    BY <1>9, <2>1, ShowEcho
  <2>3. Len(shown) < Len(Texts) /\ shown' = Append(shown, Texts[Len(shown) + 1])
    BY <1>1, <1>2, <2>2
  <2>4. Texts' = Texts /\ Ending' = Ending
    BY <2>1 DEF Texts, Ending
  <2>5. Abs!Show
    BY <2>3, <2>4 DEF Abs!Show
  <2> QED
    BY <2>5 DEF Abs!Next
<1> QED
  BY <1>5, <1>6, <1>7, <1>8, <1>9 DEF Next, Parent, Child, Ended

\* While the lines fit into the buffer with their NUL, the program keeps the promise of the
\* laboratory work: initial states map to initial states of LineEcho, and every step to one
\* of its steps or to none.
THEOREM LinesEchoed == Spec => Echoes
<1>1. Init => EchoInv
  <2> SUFFICES ASSUME Init PROVE EchoInv
    OBVIOUS
  <2>1. Len(shown) = 0 /\ Len(typed) = 0
    BY EmptySeq DEF Init
  <2> QED
    BY <2>1 DEF Init, EchoInv, InStep, Answered, Session, Writing, ClientNext, Printing
<1>2. Init => Abs!Init
  BY DEF Init, Abs!Init, Texts, Ending
<1>3. IInv /\ TextInv /\ EchoInv /\ [Next]_vars => [Fitting' => [Abs!Next]_(Abs!vars)]_vars
  BY StepEchoes
<1> QED
  BY <1>1, <1>2, <1>3, InitText, TextKept, EchoKept, InitTyped, StepKeeps, PTL DEF Spec, Echoes
=============================================================================
