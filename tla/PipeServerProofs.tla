-------------------------- MODULE PipeServerProofs --------------------------
(****************************************************************************)
(* Theorems about PipeServer, for every input, every size of the buffer and *)
(* of the pipe.  There is one turn, which needs that no client comes before *)
(* the server has its semaphores.  Further down: no byte of the stream is   *)
(* lost or moved, who has the turn can use it, and with ordinary lines the  *)
(* programs refine LineEcho.  The lemmas about FlattenSeq serve for Shell   *)
(* as well, whose theorem is at the end.                                    *)
(****************************************************************************)
EXTENDS PipeServer, Shell, SequenceTheorems, WellFoundedInduction, TLAPS

\* The counts are 0 or 1, and before the server has made the pipe there is no client.
Counts ==
  /\ server_can_enter \in {0, 1} /\ client_can_print \in {0, 1}
  /\ spc = "start" => pipe = "none"
  /\ pipe = "none" => kpc = "start"

IInv == Counts /\ OneTurn

USE DEF Turn, ServerHasTurn, ClientHasTurn

\* At the start nobody has a turn.
LEMMA InitOneTurn == Init => IInv
  BY DEF Init, IInv, Counts, OneTurn

\* The server passes its turn on to the client's semaphore, and takes it from its own.
LEMMA ServerKeepsTurn ==
  ASSUME IInv, Server \/ GetLine PROVE IInv'
<1> USE DEF IInv, Counts, OneTurn, semaphores, clientVars
<1>1. CASE StartServer
  BY <1>1 DEF StartServer, FirstCounts
<1>2. CASE WaitEnter
  BY <1>2 DEF WaitEnter
<1>3. CASE GetLine
  BY <1>3 DEF GetLine
<1>4. CASE WriteFileFails
  BY <1>4 DEF WriteFileFails
<1>5. CASE WriteFile
  <2>1. spc = "write" /\ spc' \in {"write", "release"} /\ UNCHANGED <<semaphores, kpc, pipe>>
    BY <1>5 DEF WriteFile, Put
  <2>2. QED
    BY <2>1
<1>6. CASE WriteEmpty
  BY <1>6 DEF WriteEmpty
<1>7. CASE ReleaseClient
  <2>1. /\ spc = "release" /\ spc' \in {"close", "wait"} /\ client_can_print' = 1
        /\ UNCHANGED <<server_can_enter, kpc, pipe>>
    BY <1>7 DEF ReleaseClient
  <2>2. QED
    BY <2>1
<1>8. CASE CloseServer \/ ExitServer
  BY <1>8 DEF CloseServer, ExitServer
<1>9. QED
  BY <1>1, <1>2, <1>3, <1>4, <1>5, <1>6, <1>7, <1>8 DEF Server

\* So does the client, until it ends.
LEMMA ClientKeepsTurn ==
  ASSUME IInv, Client PROVE IInv'
<1> USE DEF IInv, Counts, OneTurn, semaphores, serverVars
<1>1. CASE Connect \/ OpenSemaphores \/ OpenFails
  BY <1>1 DEF Connect, OpenSemaphores, OpenFails
<1>2. CASE WaitPrint
  BY <1>2 DEF WaitPrint
<1>3. CASE ReadFile
  BY <1>3 DEF ReadFile
<1>4. CASE ReadFileFails
  BY <1>4 DEF ReadFileFails
<1>5. CASE Disconnect
  <2>1. /\ kpc = "print" /\ kpc' = "done" /\ pipe' # "none" /\ spc # "start"
        /\ UNCHANGED <<semaphores, spc>>
    BY <1>5 DEF Disconnect
  <2>2. QED
    BY <2>1
<1>6. CASE Show
  BY <1>6 DEF Show
<1>7. CASE ReleaseServer
  BY <1>7 DEF ReleaseServer
<1>8. QED
  BY <1>1, <1>2, <1>3, <1>4, <1>5, <1>6, <1>7 DEF Client

\* Every step keeps the turn single.
LEMMA StepKeepsTurn == IInv /\ [Next]_vars => IInv'
<1>1. IInv /\ UNCHANGED vars => IInv'
  BY DEF vars, IInv, Counts, OneTurn, semaphores, serverVars, clientVars
<1>2. QED
  BY <1>1, ServerKeepsTurn, ClientKeepsTurn DEF Next

\* The two semaphores always hand over one turn: server and client never work at the same
\* time, and until the client has ended neither waits while the turn is lost.
THEOREM TurnKept == Spec => []OneTurn
<1>1. IInv => OneTurn
  BY DEF IInv
<1>2. QED
  BY <1>1, InitOneTurn, StepKeepsTurn, PTL DEF Spec

-----------------------------------------------------------------------------
(****************************************************************************)
(* FlattenSeq is a recursive function on the indices of the sequence:       *)
(* Joined(s, n) solves its definition for the first n.  What holds of it    *)
(* for every sequence is shown for the least index for which it would not.  *)
(****************************************************************************)

JoinedAt(s, f, i) == IF i = 1 THEN s[i] ELSE f[i - 1] \o s[i]
Joins(s, f, n) == f = [i \in 1..n |-> JoinedAt(s, f, i)]
Joined(s, n) == CHOOSE f : Joins(s, f, n)

\* FlattenSeq, by the solution of its definition.
LEMMA FlattenJoins ==
  \A s : FlattenSeq(s) = IF Len(s) = 0 THEN s ELSE Joined(s, Len(s))[Len(s)]
BY DEF FlattenSeq, Joined, Joins, JoinedAt

\* Some natural numbers have a least one among them.
LEMMA LeastOfNats ==
  ASSUME NEW T \in SUBSET Nat, T # {}
  PROVE  \E m \in T : \A j \in T : m <= j
<1> DEFINE less == OpToRel(<, Nat)
<1>1. \A x, y \in Nat : <<x, y>> \in less <=> x < y
  BY DEF OpToRel
<1>2. IsWellFoundedOn(less, Nat)
  BY NatLessThanWellFounded
<1> HIDE DEF less
<1>3. PICK m \in T : \A j \in T : <<j, m>> \notin less
  BY <1>2, WFMin
<1>4. ASSUME NEW j \in T PROVE m <= j
  <2>1. m \in Nat /\ j \in Nat
    OBVIOUS
  <2>2. ~(j < m)
    BY <1>1, <1>3, <2>1, Zenon
  <2>3. QED
    BY <2>1, <2>2
<1>5. QED
  BY <1>4

\* A solution, element by element.
LEMMA JoinsAt ==
  ASSUME NEW s, NEW n \in Nat, NEW f
  PROVE  /\ Joins(s, f, n) => DOMAIN f = 1..n
         /\ Joins(s, f, n) => \A i \in 1..n : f[i] = JoinedAt(s, f, i)
BY DEF Joins

\* The definition has a solution.
LEMMA JoinsExists ==
  ASSUME NEW s, NEW n \in Nat
  PROVE  Joins(s, Joined(s, n), n)
<1> DEFINE P == {k \in Nat : ~ \E f : Joins(s, f, k)}
<1> SUFFICES ASSUME P # {} PROVE FALSE
  BY DEF Joined
<1>1. PICK k \in P : \A j \in P : k <= j
  <2> HIDE DEF P
  <2>1. P \in SUBSET Nat
    BY DEF P
  <2> QED
    BY <2>1, LeastOfNats
<1>2. k \in Nat /\ ~ \E f : Joins(s, f, k)
  OBVIOUS
<1>3. CASE k = 0
  <2>1. Joins(s, [i \in 1..0 |-> 0], 0)
    BY DEF Joins
  <2> QED
    BY <1>2, <1>3, <2>1
<1>4. CASE k # 0
  <2>1. k - 1 \in Nat /\ k - 1 \notin P
    BY <1>1, <1>2, <1>4
  <2>2. PICK f : Joins(s, f, k - 1)
    BY <2>1
  <2> DEFINE g == [i \in 1..k |-> JoinedAt(s, f, i)]
  <2>3. \A i \in 1..(k - 1) : f[i] = JoinedAt(s, f, i)
    BY <2>1, <2>2, JoinsAt
  <2>4. \A i \in 1..(k - 1) : i \in 1..k /\ g[i] = f[i]
    BY <1>2, <2>3
  <2>5. \A i \in 1..k : i = 1 \/ i - 1 \in 1..(k - 1)
    BY <1>2
  <2>6. \A i \in 1..k : JoinedAt(s, g, i) = JoinedAt(s, f, i)
    <3> HIDE DEF g
    <3> QED
      BY <2>4, <2>5 DEF JoinedAt
  <2>7. g = [i \in 1..k |-> JoinedAt(s, g, i)]
    BY <2>6
  <2>8. Joins(s, g, k)
    BY <2>7 DEF Joins
  <2> QED
    BY <1>2, <2>8
<1> QED
  BY <1>3, <1>4

\* The result for the first n elements depends on them only.
LEMMA JoinedAgree ==
  ASSUME NEW s, NEW t, NEW m \in Nat, NEW k \in Nat, NEW n \in Nat \ {0}, n <= m, n <= k,
         \A i \in 1..n : s[i] = t[i]
  PROVE  Joined(s, m)[n] = Joined(t, k)[n]
<1> DEFINE f == Joined(s, m)
           g == Joined(t, k)
           P == {i \in 1..n : f[i] # g[i]}
<1> SUFFICES ASSUME P # {} PROVE FALSE
  OBVIOUS
<1>1. /\ \A i \in 1..m : f[i] = JoinedAt(s, f, i)
      /\ \A i \in 1..k : g[i] = JoinedAt(t, g, i)
  BY JoinsExists, JoinsAt
<1> HIDE DEF f, g
<1>2. PICK i \in P : \A j \in P : i <= j
  <2>1. P \in SUBSET Nat
    OBVIOUS
  <2> HIDE DEF P
  <2> QED
    BY <2>1, LeastOfNats
<1>3. i \in 1..n /\ i \in 1..m /\ i \in 1..k /\ f[i] # g[i]
  OBVIOUS
<1>4. f[i] = JoinedAt(s, f, i) /\ g[i] = JoinedAt(t, g, i) /\ s[i] = t[i]
  BY <1>1, <1>3
<1>5. i # 1
  BY <1>3, <1>4 DEF JoinedAt
<1>6. i - 1 \in 1..n /\ i - 1 \notin P
  BY <1>2, <1>3, <1>5
<1>7. f[i - 1] = g[i - 1]
  BY <1>6
<1> QED
  BY <1>3, <1>4, <1>5, <1>7 DEF JoinedAt

\* The flattened sequence is one of elements.
LEMMA FlattenType ==
  ASSUME NEW S, NEW s \in Seq(Seq(S))
  PROVE  FlattenSeq(s) \in Seq(S)
<1> DEFINE n == Len(s)
           f == Joined(s, n)
           P == {i \in 1..n : f[i] \notin Seq(S)}
<1>1. n \in Nat /\ \A i \in 1..n : s[i] \in Seq(S)
  BY LenProperties, ElementOfSeq
<1>2. CASE n = 0
  <2>1. FlattenSeq(s) = s /\ s = <<>>
    BY <1>2, FlattenJoins, EmptySeq
  <2> QED
    BY <2>1, EmptySeq
<1>3. CASE n # 0
  <2>1. \A i \in 1..n : f[i] = JoinedAt(s, f, i)
    BY <1>1, JoinsExists, JoinsAt
  <2>2. FlattenSeq(s) = f[n]
    BY <1>3, FlattenJoins
  <2> HIDE DEF f, n
  <2>3. ASSUME P # {} PROVE FALSE
    <3>1. PICK i \in P : \A j \in P : i <= j
      <4>1. P \in SUBSET Nat
        OBVIOUS
      <4> HIDE DEF P
      <4> QED
        BY <2>3, <4>1, LeastOfNats
    <3>2. i \in 1..n /\ f[i] \notin Seq(S) /\ f[i] = JoinedAt(s, f, i) /\ s[i] \in Seq(S)
      BY <1>1, <2>1
    <3>3. i # 1
      BY <3>2 DEF JoinedAt
    <3>4. i - 1 \in 1..n /\ i - 1 \notin P
      BY <1>1, <3>1, <3>2, <3>3
    <3>5. f[i - 1] \in Seq(S) /\ f[i] = f[i - 1] \o s[i]
      BY <3>2, <3>3, <3>4 DEF JoinedAt
    <3> QED
      BY <3>2, <3>5, ConcatProperties
  <2>4. n \in 1..n
    BY <1>1, <1>3
  <2> QED
    BY <2>2, <2>3, <2>4
<1> QED
  BY <1>2, <1>3

\* Nothing put together is nothing.
LEMMA FlattenEmpty == FlattenSeq(<<>>) = <<>>
BY EmptySeq, FlattenJoins

\* One sequence more comes last.
LEMMA FlattenAppend ==
  ASSUME NEW S, NEW s \in Seq(Seq(S)), NEW x \in Seq(S)
  PROVE  FlattenSeq(Append(s, x)) = FlattenSeq(s) \o x
<1> DEFINE n == Len(s)
           t == Append(s, x)
<1>1. /\ n \in Nat /\ Len(t) = n + 1 /\ t[n + 1] = x
      /\ \A i \in 1..n : t[i] = s[i]
  BY LenProperties, AppendProperties
<1> DEFINE f == Joined(t, n + 1)
<1>2. \A i \in 1..(n + 1) : f[i] = JoinedAt(t, f, i)
  BY <1>1, JoinsExists, JoinsAt
<1>3. FlattenSeq(t) = f[n + 1]
  <2>1. Len(t) = n + 1 /\ Len(t) # 0
    BY <1>1
  <2> HIDE DEF n, t
  <2>2. FlattenSeq(t) = Joined(t, Len(t))[Len(t)]
    BY <2>1, FlattenJoins
  <2> QED
    BY <2>1, <2>2
<1>4. f[n + 1] = JoinedAt(t, f, n + 1)
  BY <1>1, <1>2
<1>5. CASE n = 0
  <2>1. s = <<>> /\ FlattenSeq(s) = <<>>
    BY <1>5, EmptySeq, FlattenEmpty
  <2>2. f[n + 1] = x
    BY <1>1, <1>4, <1>5 DEF JoinedAt
  <2> QED
    BY <1>3, <2>1, <2>2, ConcatEmptySeq
<1>6. CASE n # 0
  <2>1. FlattenSeq(s) = Joined(s, n)[n]
    BY <1>6, FlattenJoins
  <2>2. Joined(s, n)[n] = f[n]
    <3> HIDE DEF n, t
    <3>1. n \in Nat \ {0} /\ n + 1 \in Nat /\ n <= n /\ n <= n + 1
      BY <1>1, <1>6
    <3> QED
      BY <1>1, <3>1, JoinedAgree DEF f
  <2>3. f[n + 1] = f[(n + 1) - 1] \o x /\ (n + 1) - 1 = n
    <3> HIDE DEF f, n, t
    <3> QED
      BY <1>1, <1>4, <1>6 DEF JoinedAt
  <2> HIDE DEF f, n
  <2> QED
    BY <1>3, <2>1, <2>2, <2>3
<1> QED
  BY <1>5, <1>6

\* Of three sequences put together, it does not matter which two are first.
LEMMA Regrouped ==
  ASSUME NEW S
  PROVE  \A p, a, b \in Seq(S) : (p \o a) \o b = p \o (a \o b)
BY ConcatAssociative

\* The first elements of a sequence, one by one.
LEMMA PartFacts ==
  ASSUME NEW S, NEW s \in Seq(S)
  PROVE  /\ \A n \in 0..Len(s) : SubSeq(s, 1, n) \in Seq(S) /\ Len(SubSeq(s, 1, n)) = n
         /\ \A n \in 0..Len(s) : \A i \in 1..n : SubSeq(s, 1, n)[i] = s[i]
         /\ \A n \in 1..Len(s) : SubSeq(s, 1, n) = Append(SubSeq(s, 1, n - 1), s[n])
<1>1. Len(s) \in Nat /\ \A i \in 1..Len(s) : s[i] \in S
  BY LenProperties, ElementOfSeq
<1>2. ASSUME NEW n \in 0..Len(s)
      PROVE  /\ SubSeq(s, 1, n) \in Seq(S) /\ Len(SubSeq(s, 1, n)) = n
             /\ \A i \in 1..n : SubSeq(s, 1, n)[i] = s[i]
  <2>1. n \in Int /\ n >= 0 /\ \A i \in 1..n : s[i] \in S
    BY <1>1
  <2> DEFINE t == SubSeq(s, 1, n)
  <2>2. /\ t \in Seq(S) /\ Len(t) = IF 1 <= n THEN n - 1 + 1 ELSE 0
        /\ \A i \in 1..(n - 1 + 1) : t[i] = s[1 + i - 1]
    BY <2>1, SubSeqProperties
  <2> HIDE DEF t
  <2>3. t \in Seq(S) /\ Len(t) = n /\ \A i \in 1..n : t[i] = s[i]
    BY <2>1, <2>2
  <2> QED
    BY <2>3 DEF t
<1>3. ASSUME NEW n \in 1..Len(s)
      PROVE  SubSeq(s, 1, n) = Append(SubSeq(s, 1, n - 1), s[n])
  <2> DEFINE t == SubSeq(s, 1, n)
             p == SubSeq(s, 1, n - 1)
             u == Append(p, s[n])
  <2>1. n \in 0..Len(s) /\ n - 1 \in 0..Len(s) /\ s[n] \in S
    BY <1>1
  <2>2. /\ t \in Seq(S) /\ Len(t) = n /\ \A i \in 1..n : t[i] = s[i]
        /\ p \in Seq(S) /\ Len(p) = n - 1 /\ \A i \in 1..(n - 1) : p[i] = s[i]
    BY <1>2, <2>1
  <2> HIDE DEF t, p
  <2>3. /\ u \in Seq(S) /\ Len(u) = n /\ u[n] = s[n]
        /\ \A i \in 1..(n - 1) : u[i] = s[i]
    <3>1. /\ u \in Seq(S) /\ Len(u) = Len(p) + 1
          /\ \A i \in 1..Len(p) : u[i] = p[i]
          /\ u[Len(p) + 1] = s[n]
      BY <2>1, <2>2, AppendProperties
    <3> HIDE DEF u
    <3> QED
      BY <1>1, <2>2, <3>1
  <2> HIDE DEF u
  <2>4. \A i \in 1..n : i \in 1..(n - 1) \/ i = n
    BY <1>1
  <2>5. t = u
    BY <2>2, <2>3, <2>4, SeqEqual
  <2> QED
    BY <2>5 DEF t, p, u
<1> QED
  BY <1>2, <1>3

\* One element more, behind two sequences.
LEMMA AppendBehind ==
  ASSUME NEW S
  PROVE  \A s, t \in Seq(S) : \A x \in S : s \o Append(t, x) = Append(s \o t, x)
<1> SUFFICES ASSUME NEW s \in Seq(S), NEW t \in Seq(S), NEW x \in S
             PROVE  s \o Append(t, x) = Append(s \o t, x)
  OBVIOUS
<1>1. Append(t, x) = t \o <<x>> /\ <<x>> \in Seq(S)
  BY AppendIsConcat
<1>2. s \o t \in Seq(S)
  BY ConcatProperties
<1>3. Append(s \o t, x) = (s \o t) \o <<x>>
  BY <1>2, AppendIsConcat
<1> QED
  BY <1>1, <1>3, ConcatAssociative

\* What is in the sequences of two sequences, one behind the other.
LEMMA FlattenConcat ==
  ASSUME NEW S, NEW s \in Seq(Seq(S)), NEW t \in Seq(Seq(S))
  PROVE  FlattenSeq(s \o t) = FlattenSeq(s) \o FlattenSeq(t)
<1> DEFINE part(n) == SubSeq(t, 1, n)
           Splits(n) == FlattenSeq(s \o part(n)) = FlattenSeq(s) \o FlattenSeq(part(n))
           P == {n \in 0..Len(t) : ~Splits(n)}
<1>1. Len(t) \in Nat /\ part(Len(t)) = t
  BY LenProperties, SubSeqFull
<1>2. \A n \in 0..Len(t) : part(n) \in Seq(Seq(S))
  BY PartFacts
<1>3. part(0) = <<>>
  BY SubSeqEmpty
<1>4. \A n \in 1..Len(t) : part(n) = Append(part(n - 1), t[n]) /\ t[n] \in Seq(S)
  BY PartFacts, ElementOfSeq
<1> HIDE DEF part
<1>5. Splits(Len(t)) => FlattenSeq(s \o t) = FlattenSeq(s) \o FlattenSeq(t)
  BY <1>1
<1>6. Splits(0)
  <2>1. s \o <<>> = s
    BY ConcatEmptySeq
  <2>2. FlattenSeq(s) \o <<>> = FlattenSeq(s)
    BY FlattenType, ConcatEmptySeq
  <2> QED
    BY <1>3, <2>1, <2>2, FlattenEmpty
<1>7. ASSUME NEW n \in 1..Len(t), Splits(n - 1) PROVE Splits(n)
  <2>1. PICK p, x : p = part(n - 1) /\ x = t[n]
    OBVIOUS
  <2>2. n - 1 \in 0..Len(t)
    BY <1>1
  <2>3. p \in Seq(Seq(S)) /\ x \in Seq(S) /\ part(n) = Append(p, x)
    BY <1>2, <1>4, <2>1, <2>2
  <2>4. FlattenSeq(s \o p) = FlattenSeq(s) \o FlattenSeq(p)
    BY <1>7, <2>1
  <2> HIDE DEF Splits
  <2>5. s \o Append(p, x) = Append(s \o p, x)
    <3>1. PICK T : T = Seq(S)
      OBVIOUS
    <3>2. s \in Seq(T) /\ p \in Seq(T) /\ x \in T
      BY <2>3, <3>1
    <3> QED
      BY ONLY <3>2, AppendBehind
  <2>6. s \o p \in Seq(Seq(S))
    BY ONLY s \in Seq(Seq(S)), <2>3, ConcatProperties
  <2>7. FlattenSeq(Append(s \o p, x)) = FlattenSeq(s \o p) \o x
    BY ONLY <2>3, <2>6, FlattenAppend
  <2>8. FlattenSeq(Append(p, x)) = FlattenSeq(p) \o x
    BY ONLY <2>3, FlattenAppend
  <2>9. FlattenSeq(s) \in Seq(S) /\ FlattenSeq(p) \in Seq(S)
    BY <2>3, FlattenType
  <2>10. (FlattenSeq(s) \o FlattenSeq(p)) \o x = FlattenSeq(s) \o (FlattenSeq(p) \o x)
    <3>1. PICK u, v : u = FlattenSeq(s) /\ v = FlattenSeq(p)
      OBVIOUS
    <3>2. u \in Seq(S) /\ v \in Seq(S) /\ x \in Seq(S)
      BY <2>3, <2>9, <3>1
    <3>3. (u \o v) \o x = u \o (v \o x)
      BY ONLY <3>2, Regrouped, SMTT(20)
    <3> QED
      BY ONLY <3>1, <3>3
  <2> QED
    BY ONLY <2>3, <2>4, <2>5, <2>7, <2>8, <2>10 DEF Splits
<1> HIDE DEF Splits
<1>8. Len(t) \in 0..Len(t)
  BY ONLY <1>1
<1>9. P = {} => Splits(Len(t))
  BY ONLY <1>8
<1> SUFFICES ASSUME P # {} PROVE FALSE
  BY <1>5, <1>9
<1>10. PICK n \in P : \A j \in P : n <= j
  <2>1. P \in SUBSET Nat
    OBVIOUS
  <2> HIDE DEF P
  <2> QED
    BY <2>1, LeastOfNats
<1>11. n \in 1..Len(t) /\ n - 1 \in 0..Len(t) /\ n - 1 \notin P
  BY <1>1, <1>6, <1>10
<1> QED
  BY <1>7, <1>10, <1>11

-----------------------------------------------------------------------------
(* The bytes of lines in a sequence *)

Real(b) == b.pos > 0 /\ b.line > 0
Each(s) == [i \in DOMAIN s |-> Only(s[i])]

\* One byte, or none if it is a mark or lies behind the buffer.
LEMMA OnlyType == \A b \in Byte : Only(b) \in Seq(Byte)
<1> SUFFICES ASSUME NEW b \in Byte PROVE Only(b) \in Seq(Byte)
  OBVIOUS
<1>1. <<b>> \in Seq(Byte) /\ <<>> \in Seq(Byte)
  OBVIOUS
<1> QED
  BY <1>1 DEF Only

\* What each byte of a sequence is worth.
LEMMA EachType ==
  ASSUME NEW s \in Seq(Byte)
  PROVE  /\ Each(s) \in Seq(Seq(Byte)) /\ Len(Each(s)) = Len(s)
         /\ \A i \in 1..Len(s) : Each(s)[i] = Only(s[i])
<1>1. DOMAIN s = 1..Len(s) /\ Len(s) \in Nat /\ \A i \in 1..Len(s) : Only(s[i]) \in Seq(Byte)
  BY LenProperties, ElementOfSeq, OnlyType
<1> DEFINE each == [i \in 1..Len(s) |-> Only(s[i])]
<1>2. Each(s) = each
  BY <1>1 DEF Each
<1>3. each \in Seq(Seq(Byte)) /\ Len(each) = Len(s)
  BY <1>1, IsASeq, LenProperties
<1> QED
  BY <1>2, <1>3

\* The same of one byte more.
LEMMA EachAppend ==
  ASSUME NEW s \in Seq(Byte), NEW b \in Byte
  PROVE  Each(Append(s, b)) = Append(Each(s), Only(b))
<1> DEFINE n == Len(s)
           t == Append(s, b)
           u == Append(Each(s), Only(b))
<1>1. /\ n \in Nat /\ t \in Seq(Byte) /\ Len(t) = n + 1 /\ t[n + 1] = b
      /\ \A i \in 1..n : t[i] = s[i]
  BY LenProperties, AppendProperties
<1>2. /\ Each(s) \in Seq(Seq(Byte)) /\ Len(Each(s)) = n
      /\ \A i \in 1..n : Each(s)[i] = Only(s[i])
  BY EachType
<1>3. /\ u \in Seq(Seq(Byte)) /\ Len(u) = n + 1 /\ u[n + 1] = Only(b)
      /\ \A i \in 1..n : u[i] = Only(s[i])
  BY <1>2, OnlyType, AppendProperties
<1> HIDE DEF n, t, u
<1>4. /\ Each(t) \in Seq(Seq(Byte)) /\ Len(Each(t)) = n + 1
      /\ \A i \in 1..(n + 1) : Each(t)[i] = Only(t[i])
  BY <1>1, EachType
<1>5. \A i \in 1..(n + 1) : i \in 1..n \/ i = n + 1
  BY <1>1
<1>6. \A i \in 1..(n + 1) : Each(t)[i] = u[i]
  BY <1>1, <1>3, <1>4, <1>5
<1>7. Each(t) = u
  BY <1>3, <1>4, <1>6, SeqEqual
<1> QED
  BY <1>7 DEF t, u

\* And of two sequences, one behind the other.
LEMMA EachConcat ==
  ASSUME NEW s \in Seq(Byte), NEW t \in Seq(Byte)
  PROVE  Each(s \o t) = Each(s) \o Each(t)
<1> DEFINE n == Len(s)
           m == Len(t)
           st == s \o t
           u == Each(s) \o Each(t)
<1>1. /\ n \in Nat /\ m \in Nat /\ st \in Seq(Byte) /\ Len(st) = n + m
      /\ \A i \in 1..(n + m) : st[i] = IF i <= n THEN s[i] ELSE t[i - n]
  BY LenProperties, ConcatProperties
<1>2. /\ Each(s) \in Seq(Seq(Byte)) /\ Len(Each(s)) = n
      /\ \A i \in 1..n : Each(s)[i] = Only(s[i])
      /\ Each(t) \in Seq(Seq(Byte)) /\ Len(Each(t)) = m
      /\ \A i \in 1..m : Each(t)[i] = Only(t[i])
  BY EachType
<1>3. /\ u \in Seq(Seq(Byte)) /\ Len(u) = n + m
      /\ \A i \in 1..(n + m) : u[i] = IF i <= n THEN Each(s)[i] ELSE Each(t)[i - n]
  <2>1. /\ u \in Seq(Seq(Byte)) /\ Len(u) = Len(Each(s)) + Len(Each(t))
        /\ \A i \in 1..(Len(Each(s)) + Len(Each(t))) :
             u[i] = IF i <= Len(Each(s)) THEN Each(s)[i] ELSE Each(t)[i - Len(Each(s))]
    <3>1. PICK es, et : es = Each(s) /\ et = Each(t)
      OBVIOUS
    <3>2. es \in Seq(Seq(Byte)) /\ et \in Seq(Seq(Byte)) /\ u = es \o et
      BY <1>2, <3>1
    <3> HIDE DEF u
    <3>3. /\ es \o et \in Seq(Seq(Byte)) /\ Len(es \o et) = Len(es) + Len(et)
          /\ \A i \in 1..(Len(es) + Len(et)) :
               (es \o et)[i] = IF i <= Len(es) THEN es[i] ELSE et[i - Len(es)]
      BY ONLY <3>2, ConcatProperties
    <3> QED
      BY ONLY <3>1, <3>2, <3>3
  <2> HIDE DEF n, m, u
  <2> QED
    BY <1>2, <2>1
<1> HIDE DEF n, m, st, u
<1>4. /\ Each(st) \in Seq(Seq(Byte)) /\ Len(Each(st)) = n + m
      /\ \A i \in 1..(n + m) : Each(st)[i] = Only(st[i])
  BY <1>1, EachType
<1>5. ASSUME NEW i \in 1..(n + m) PROVE Each(st)[i] = u[i]
  <2>1. CASE i <= n
    <3>1. i \in 1..n
      BY <1>1, <2>1
    <3>2. st[i] = s[i]
      BY <1>1, <2>1
    <3>3. u[i] = Each(s)[i]
      BY <1>3, <2>1
    <3>4. Each(s)[i] = Only(s[i]) /\ Each(st)[i] = Only(st[i])
      BY <1>2, <1>4, <3>1
    <3> QED
      BY <3>2, <3>3, <3>4
  <2>2. CASE ~(i <= n)
    <3>1. PICK j \in 1..m : j = i - n
      BY <1>1, <2>2
    <3>2. st[i] = t[j]
      BY <1>1, <2>2, <3>1
    <3>3. u[i] = Each(t)[j]
      BY <1>3, <2>2, <3>1
    <3>4. Each(t)[j] = Only(t[j]) /\ Each(st)[i] = Only(st[i])
      BY <1>2, <1>4
    <3> QED
      BY <3>2, <3>3, <3>4
  <2> QED
    BY <2>1, <2>2
<1>6. Each(st) = u
  BY <1>3, <1>4, <1>5, SeqEqual
<1> QED
  BY <1>6 DEF st, u

\* Bytes, by what each byte is worth.
LEMMA BytesEach == \A s : Bytes(s) = FlattenSeq(Each(s))
BY DEF Bytes, Each

\* It is a sequence of bytes again.
LEMMA BytesType ==
  ASSUME NEW s \in Seq(Byte)
  PROVE  Bytes(s) \in Seq(Byte)
BY BytesEach, EachType, FlattenType

\* Of one byte more.
LEMMA BytesAppend ==
  ASSUME NEW s \in Seq(Byte), NEW b \in Byte
  PROVE  Bytes(Append(s, b)) = Bytes(s) \o Only(b)
<1>1. Each(Append(s, b)) = Append(Each(s), Only(b))
  BY EachAppend
<1>2. FlattenSeq(Append(Each(s), Only(b))) = FlattenSeq(Each(s)) \o Only(b)
  BY EachType, OnlyType, FlattenAppend
<1> QED
  BY <1>1, <1>2, BytesEach

\* Of two sequences, one behind the other.
LEMMA BytesConcat ==
  ASSUME NEW s \in Seq(Byte), NEW t \in Seq(Byte)
  PROVE  Bytes(s \o t) = Bytes(s) \o Bytes(t)
<1>1. Each(s \o t) = Each(s) \o Each(t)
  BY EachConcat
<1>2. FlattenSeq(Each(s) \o Each(t)) = FlattenSeq(Each(s)) \o FlattenSeq(Each(t))
  BY EachType, FlattenConcat
<1> QED
  BY <1>1, <1>2, BytesEach

\* Of nothing.
LEMMA BytesEmpty == Bytes(<<>>) = <<>>
<1>1. <<>> \in Seq(Byte) /\ Len(<<>>) = 0
  BY EmptySeq
<1>2. Each(<<>>) \in Seq(Seq(Byte)) /\ Len(Each(<<>>)) = 0
  BY <1>1, EachType
<1>3. Each(<<>>) = <<>>
  BY <1>2, EmptySeq
<1> QED
  BY <1>3, BytesEach, FlattenEmpty

\* Where every byte is of a line, all of them.
LEMMA BytesReal ==
  ASSUME NEW s \in Seq(Byte), \A i \in 1..Len(s) : Real(s[i])
  PROVE  Bytes(s) = s
<1> DEFINE part(n) == SubSeq(s, 1, n)
           P == {n \in 0..Len(s) : Bytes(part(n)) # part(n)}
<1>1. Len(s) \in Nat /\ part(Len(s)) = s
  BY LenProperties, SubSeqFull
<1>2. \A n \in 0..Len(s) : part(n) \in Seq(Byte)
  BY PartFacts
<1>3. part(0) = <<>>
  BY SubSeqEmpty
<1>4. \A n \in 1..Len(s) : part(n) = Append(part(n - 1), s[n]) /\ s[n] \in Byte
  BY PartFacts, ElementOfSeq
<1> HIDE DEF part
<1> SUFFICES ASSUME P # {} PROVE FALSE
  BY <1>1
<1>5. PICK n \in P : \A j \in P : n <= j
  <2>1. P \in SUBSET Nat
    OBVIOUS
  <2> HIDE DEF P
  <2> QED
    BY <2>1, LeastOfNats
<1>6. n \in 0..Len(s) /\ Bytes(part(n)) # part(n)
  OBVIOUS
<1>7. n # 0
  BY <1>3, <1>6, BytesEmpty
<1>8. n - 1 \in 0..Len(s) /\ n \in 1..Len(s) /\ n - 1 \notin P
  BY <1>1, <1>5, <1>6, <1>7
<1>9. PICK p, b : p = part(n - 1) /\ b = s[n]
  OBVIOUS
<1>10. /\ p \in Seq(Byte) /\ b \in Byte /\ Real(b) /\ Bytes(p) = p /\ part(n) = Append(p, b)
  BY <1>2, <1>4, <1>8, <1>9
<1>11. Only(b) = <<b>> /\ p \o <<b>> = Append(p, b)
  <2>1. Only(b) = <<b>>
    BY <1>10 DEF Only, Real
  <2>2. p \o <<b>> = Append(p, b)
    BY <1>10, AppendIsConcat
  <2> QED
    BY <2>1, <2>2
<1> QED
  BY <1>6, <1>10, <1>11, BytesAppend

-----------------------------------------------------------------------------
(****************************************************************************)
(* The types, and the stream of bytes.  Besides the turns it needs that     *)
(* nothing of a line is in the pipe that WriteFile may still refuse: the    *)
(* client does not leave while the server writes.                           *)
(****************************************************************************)

\* What is read and not yet printed, and all the bytes that have left the server.
Unprinted == IF kpc = "print" \/ kpc = "done" THEN buf ELSE <<>>
Left == (Bytes(FlattenSeq(shown)) \o Unprinted) \o Bytes(data)
Sents == [i \in DOMAIN typed |-> Sent(i)]

FlowInv ==
  /\ spc # "write" => unsent = <<>>
  /\ spc = "write" => /\ Len(typed) \notin refused /\ Len(typed) # 0
                      /\ pipe # "connected" => unsent = Text(Len(typed))
  /\ \A i \in 1..Len(unsent) : Real(unsent[i])
  /\ \A i \in 1..Len(data) : data[i].line > 0
  /\ \A i \in 1..Len(buf) : Real(buf[i])

KeptInv == Kept /\ FlowInv

-----------------------------------------------------------------------------

\* The stream, by what has left the server and what was sent of each line, in both states.
LEMMA StreamParts ==
  /\ Stream <=> Left \o unsent = AllSent
  /\ AllSent = FlattenSeq(Sents)
  /\ Stream' <=> Left' \o unsent' = AllSent'
  /\ AllSent' = FlattenSeq(Sents')
BY DEF Stream, Left, Unprinted, AllSent, Sents

\* The sequences, and their lengths.
LEMMA SequenceTypes ==
  ASSUME TypeOK
  PROVE  /\ data \in Seq(Byte) /\ Len(data) \in Nat /\ DOMAIN data = 1..Len(data)
         /\ unsent \in Seq(Byte) /\ Len(unsent) \in Nat
         /\ buf \in Seq(Byte) /\ Len(buf) \in Nat
         /\ typed \in Seq(TextLine) /\ Len(typed) \in Nat /\ DOMAIN typed = 1..Len(typed)
         /\ shown \in Seq(Seq(Byte)) /\ Len(shown) \in Nat /\ DOMAIN shown = 1..Len(shown)
         /\ BUFSIZ \in Nat \ {0} /\ PipeSize \in Nat \ {0}
BY LenProperties, SizesAssumption DEF TypeOK

\* The bytes of a line, one by one.
LEMMA TextFacts ==
  ASSUME TypeOK, NEW i \in 1..Len(typed)
  PROVE  /\ typed[i].size \in Nat /\ i \in Nat
         /\ Text(i) \in Seq(Byte) /\ Len(Text(i)) = typed[i].size
         /\ \A p \in 1..typed[i].size : Text(i)[p] = [line |-> i, pos |-> p]
         /\ \A p \in 1..Len(Text(i)) : Real(Text(i)[p])
<1>1. typed[i] \in TextLine /\ i \in Nat /\ i > 0
  BY SequenceTypes, ElementOfSeq
<1>2. typed[i].size \in Nat
  BY <1>1 DEF TextLine
<1> DEFINE size == typed[i].size
<1>3. \A p \in 1..size : [line |-> i, pos |-> p] \in Byte
  BY <1>1, <1>2 DEF Byte
<1>4. Text(i) = [p \in 1..size |-> [line |-> i, pos |-> p]]
  BY DEF Text
<1> HIDE DEF size
<1>5. Text(i) \in Seq(Byte) /\ Len(Text(i)) = size
  BY <1>2, <1>3, <1>4, IsASeq, LenProperties DEF size
<1>6. \A p \in 1..size : Text(i)[p] = [line |-> i, pos |-> p]
  BY <1>4
<1>7. \A p \in 1..size : Real(Text(i)[p])
  <2> TAKE p \in 1..size
  <2>1. p \in Nat /\ p > 0
    BY <1>2 DEF size
  <2>2. Real([line |-> i, pos |-> p])
    BY <1>1, <2>1 DEF Real
  <2> QED
    BY <1>6, <2>2
<1> QED
  BY <1>1, <1>2, <1>5, <1>6, <1>7 DEF size

\* What was sent of each line.
LEMMA SentsType ==
  ASSUME TypeOK
  PROVE  /\ Sents \in Seq(Seq(Byte)) /\ Len(Sents) = Len(typed)
         /\ \A i \in 1..Len(typed) : Sents[i] = Sent(i) /\ Sent(i) \in Seq(Byte)
<1>1. DOMAIN typed = 1..Len(typed) /\ Len(typed) \in Nat
  BY SequenceTypes
<1>2. \A i \in 1..Len(typed) : Sent(i) \in Seq(Byte)
  BY TextFacts, EmptySeq DEF Sent
<1> DEFINE sents == [i \in 1..Len(typed) |-> Sent(i)]
<1>3. Sents = sents
  BY <1>1 DEF Sents
<1>4. sents \in Seq(Seq(Byte)) /\ Len(sents) = Len(typed)
  BY <1>1, <1>2, IsASeq, LenProperties
<1> QED
  BY <1>2, <1>3, <1>4

\* The same in the next state.
LEMMA SentsNext ==
  ASSUME TypeOK'
  PROVE  /\ Sents' \in Seq(Seq(Byte)) /\ Len(Sents') = Len(typed')
         /\ \A i \in 1..Len(typed') : Sents'[i] = Sent(i)'
<1>1. (/\ Sents \in Seq(Seq(Byte)) /\ Len(Sents) = Len(typed)
       /\ \A i \in 1..Len(typed) : Sents[i] = Sent(i) /\ Sent(i) \in Seq(Byte))'
  BY SentsType, PTL
<1> QED
  BY <1>1

\* The parts of the stream.
LEMMA StreamTypes ==
  ASSUME TypeOK
  PROVE  /\ FlattenSeq(shown) \in Seq(Byte) /\ Bytes(FlattenSeq(shown)) \in Seq(Byte)
         /\ Unprinted \in Seq(Byte) /\ Bytes(data) \in Seq(Byte)
         /\ Bytes(FlattenSeq(shown)) \o Unprinted \in Seq(Byte)
         /\ Left \in Seq(Byte) /\ AllSent \in Seq(Byte)
<1>1. FlattenSeq(shown) \in Seq(Byte) /\ AllSent \in Seq(Byte)
  BY SequenceTypes, SentsType, FlattenType, StreamParts
<1>2. Bytes(FlattenSeq(shown)) \in Seq(Byte) /\ Bytes(data) \in Seq(Byte)
  BY <1>1, SequenceTypes, BytesType
<1>3. Unprinted \in Seq(Byte)
  BY SequenceTypes, EmptySeq DEF Unprinted
<1>4. PICK a, u, d : a = Bytes(FlattenSeq(shown)) /\ u = Unprinted /\ d = Bytes(data)
  OBVIOUS
<1>5. a \in Seq(Byte) /\ u \in Seq(Byte) /\ d \in Seq(Byte)
  BY <1>2, <1>3, <1>4
<1>6. a \o u \in Seq(Byte)
  BY ONLY <1>5, ConcatProperties
<1>7. (a \o u) \o d \in Seq(Byte)
  BY ONLY <1>5, <1>6, ConcatProperties
<1> QED
  BY <1>1, <1>2, <1>3, <1>4, <1>6, <1>7 DEF Left

\* A step that moves no byte.
LEMMA StreamFrame ==
  ASSUME Stream, UNCHANGED <<shown, data, unsent, typed, refused>>, Unprinted' = Unprinted
  PROVE  Stream'
<1>1. Left' = Left
  BY DEF Left
<1>2. Sents' = Sents
  BY DEF Sents, Sent, Text
<1> QED
  BY <1>1, <1>2, StreamParts

\* A step that changes no sequence.
LEMMA KeptFrame ==
  ASSUME KeptInv, UNCHANGED <<shown, data, unsent, typed, refused, buf, input, user_input>>,
         TypeOK',
         spc = "write" <=> spc' = "write",
         spc = "write" /\ pipe' # "connected" => pipe # "connected",
         kpc' \in {"print", "done"} <=> kpc \in {"print", "done"}
  PROVE  KeptInv'
<1>1. Unprinted' = Unprinted
  BY DEF Unprinted
<1>2. Stream'
  BY <1>1, StreamFrame DEF KeptInv, Kept
<1>3. FlowInv'
  BY DEF KeptInv, FlowInv, Text
<1> QED
  BY <1>2, <1>3 DEF KeptInv, Kept

\* The steps of this kind.
LEMMA KeptFrames ==
  ASSUME IInv, KeptInv,
         \/ StartServer \/ WaitEnter \/ ReleaseClient \/ CloseServer \/ ExitServer
         \/ Connect \/ OpenSemaphores \/ OpenFails \/ WaitPrint \/ Disconnect \/ ReleaseServer
  PROVE  KeptInv'
<1>1. CASE StartServer
  BY <1>1, KeptFrame DEF StartServer, FirstCounts, KeptInv, Kept, TypeOK, clientVars
<1>2. CASE WaitEnter
  BY <1>2, KeptFrame DEF WaitEnter, KeptInv, Kept, TypeOK, clientVars
<1>3. CASE ReleaseClient
  BY <1>3, KeptFrame DEF ReleaseClient, KeptInv, Kept, TypeOK, clientVars
<1>4. CASE CloseServer \/ ExitServer
  BY <1>4, KeptFrame DEF CloseServer, ExitServer, KeptInv, Kept, TypeOK, clientVars, semaphores
<1>5. CASE Connect \/ OpenSemaphores \/ OpenFails
  BY <1>5, KeptFrame
     DEF Connect, OpenSemaphores, OpenFails, KeptInv, Kept, TypeOK, serverVars, semaphores
<1>6. CASE WaitPrint
  BY <1>6, KeptFrame DEF WaitPrint, KeptInv, Kept, TypeOK, serverVars
<1>7. CASE Disconnect
  <2>1. spc # "write"
    BY <1>7 DEF IInv, Counts, OneTurn, Disconnect
  <2> QED
    BY <1>7, <2>1, KeptFrame DEF Disconnect, KeptInv, Kept, TypeOK, serverVars, semaphores
<1>8. CASE ReleaseServer
  BY <1>8, KeptFrame DEF ReleaseServer, KeptInv, Kept, TypeOK, serverVars
<1> QED
  BY <1>1, <1>2, <1>3, <1>4, <1>5, <1>6, <1>7, <1>8

\* A new line is all to be sent.
LEMMA GetLineKept == KeptInv /\ GetLine => KeptInv'
<1> SUFFICES ASSUME KeptInv, GetLine PROVE KeptInv'
  OBVIOUS
<1>0. PICK L : L = Len(typed)
  OBVIOUS
<1>1. /\ TypeOK /\ unsent = <<>> /\ L \in Nat /\ typed \in Seq(TextLine) /\ DOMAIN typed = 1..L
      /\ refused \subseteq 1..L
  BY <1>0, SequenceTypes DEF KeptInv, Kept, FlowInv, GetLine, TypeOK
<1>2. user_input' \in TextLine
  <2>1. input \in Seq(TextLine)
    BY <1>1, InputsAssumption DEF TypeOK
  <2>2. Len(typed) + 1 \in 1..Len(input)
    BY <1>0, <1>1, <2>1, LenProperties DEF GetLine
  <2> QED
    BY <2>1, <2>2, ElementOfSeq DEF GetLine
<1>3. /\ typed' \in Seq(TextLine) /\ Len(typed') = L + 1 /\ DOMAIN typed' = 1..(L + 1)
      /\ typed'[L + 1] = user_input' /\ \A i \in 1..L : typed'[i] = typed[i]
  BY <1>0, <1>1, <1>2, AppendProperties, LenProperties DEF GetLine
<1>4. unsent' = Text(L + 1)'
  BY <1>1, <1>3 DEF GetLine, Text
<1>5. unsent' \in Seq(Byte) /\ \A p \in 1..Len(unsent') : Real(unsent'[p])
  <2> DEFINE size == user_input'.size
  <2>1. size \in Nat
    BY <1>2 DEF TextLine
  <2>2. \A p \in 1..size : [line |-> L + 1, pos |-> p] \in Byte /\ Real([line |-> L + 1, pos |-> p])
    BY <1>1, <2>1 DEF Byte, Real
  <2> DEFINE text == [p \in 1..size |-> [line |-> L + 1, pos |-> p]]
  <2>3. unsent' = text
    BY <1>3 DEF GetLine
  <2> HIDE DEF size
  <2>4. text \in Seq(Byte) /\ Len(text) = size
    BY <2>1, <2>2, IsASeq, LenProperties
  <2> QED
    BY <2>2, <2>3, <2>4
<1>6. TypeOK'
  <2>1. 1..L \subseteq 1..(L + 1)
    BY <1>1
  <2>2. refused' \subseteq 1..Len(typed')
    BY <1>1, <1>3, <2>1 DEF GetLine
  <2> QED
    BY <1>1, <1>2, <1>3, <1>5, <2>2 DEF GetLine, TypeOK, semaphores, clientVars
<1>7. FlowInv'
  <2>1. spc' = "write" /\ Len(typed') \notin refused' /\ Len(typed') # 0
    BY <1>1, <1>3 DEF GetLine
  <2>2. unsent' = Text(Len(typed))'
    BY <1>3, <1>4 DEF Text
  <2>3. /\ \A i \in 1..Len(data') : data'[i].line > 0
        /\ \A i \in 1..Len(buf') : Real(buf'[i])
    BY DEF KeptInv, FlowInv, GetLine, clientVars
  <2> QED
    BY <1>5, <2>1, <2>2, <2>3 DEF FlowInv
<1>8. Sents' = Append(Sents, unsent')
  <2> DEFINE more == Append(Sents, unsent')
  <2>1. /\ more \in Seq(Seq(Byte)) /\ Len(more) = L + 1 /\ more[L + 1] = unsent'
        /\ \A i \in 1..L : more[i] = Sent(i)
    <3>1. /\ Sents \in Seq(Seq(Byte)) /\ Len(Sents) = L
          /\ \A i \in 1..L : Sents[i] = Sent(i)
      BY <1>0, <1>1, SentsType
    <3> QED
      BY <1>5, <3>1, AppendProperties
  <2>2. DOMAIN typed' = 1..(L + 1) /\ Sents' = [i \in 1..(L + 1) |-> Sent(i)']
    BY <1>3 DEF Sents
  <2>3. ASSUME NEW i \in 1..L PROVE Sent(i)' = Sent(i)
    BY <1>3 DEF Sent, Text, GetLine
  <2>4. Sent(L + 1)' = unsent'
    <3>1. L + 1 \notin refused'
      BY <1>1 DEF GetLine
    <3> QED
      BY <1>4, <3>1 DEF Sent
  <2>5. \A i \in 1..(L + 1) : i \in 1..L \/ i = L + 1
    BY <1>1
  <2> HIDE DEF more
  <2>6. \A i \in 1..(L + 1) : Sents'[i] = more[i]
    BY <2>1, <2>2, <2>3, <2>4, <2>5
  <2>7. Sents' \in Seq(Seq(Byte)) /\ Len(Sents') = L + 1
    BY <1>3, <1>6, SentsNext
  <2> QED
    BY <2>1, <2>6, <2>7, SeqEqual DEF more
<1>9. Left' = Left
  BY DEF Left, Unprinted, GetLine, clientVars
<1>10. Stream'
  <2>1. Left \o <<>> = AllSent /\ Left \in Seq(Byte)
    BY <1>1, StreamParts, StreamTypes DEF KeptInv, Kept
  <2>2. Left = AllSent
    BY <2>1, ConcatEmptySeq
  <2>3. FlattenSeq(Append(Sents, unsent')) = FlattenSeq(Sents) \o unsent'
    <3>1. PICK more, text : more = Sents /\ text = unsent'
      OBVIOUS
    <3>2. more \in Seq(Seq(Byte)) /\ text \in Seq(Byte)
      BY <1>1, <1>5, <3>1, SentsType
    <3>3. FlattenSeq(Append(more, text)) = FlattenSeq(more) \o text
      BY <3>2, FlattenAppend
    <3> QED
      BY ONLY <3>1, <3>3
  <2> QED
    BY <1>8, <1>9, <2>2, <2>3, StreamParts
<1> QED
  BY <1>6, <1>7, <1>10 DEF KeptInv, Kept

\* WriteFile refuses a line of which nothing is in the pipe.
LEMMA WriteFailsKept == KeptInv /\ WriteFileFails => KeptInv'
<1> SUFFICES ASSUME KeptInv, WriteFileFails PROVE KeptInv'
  OBVIOUS
<1>0. PICK L : L = Len(typed)
  OBVIOUS
<1> DEFINE before == SubSeq(Sents, 1, L - 1)
<1>1. /\ TypeOK /\ L \in Nat \ {0} /\ typed \in Seq(TextLine) /\ DOMAIN typed = 1..L
      /\ refused \subseteq 1..L /\ L \notin refused /\ unsent = Text(L)
  BY <1>0, SequenceTypes DEF KeptInv, Kept, FlowInv, WriteFileFails, TypeOK
<1>2. TypeOK'
  <2>1. refused' \subseteq 1..L
    <3>1. L \in 1..L /\ refused' = refused \cup {L}
      BY <1>0, <1>1 DEF WriteFileFails
    <3> QED
      BY <1>1, <3>1
  <2>2. unsent' \in Seq(Byte)
    BY EmptySeq DEF WriteFileFails
  <2> QED
    BY <1>0, <1>1, <2>1, <2>2 DEF WriteFileFails, TypeOK, semaphores, clientVars
<1>3. FlowInv'
  <2>1. Len(<<>>) = 0 /\ unsent' = <<>> /\ spc' = "release" /\ UNCHANGED <<data, buf>>
    BY EmptySeq DEF WriteFileFails, clientVars
  <2>2. \A i \in 1..Len(unsent') : FALSE
    BY <2>1
  <2> QED
    BY <2>1, <2>2 DEF KeptInv, FlowInv
<1>4. /\ Sents \in Seq(Seq(Byte)) /\ Len(Sents) = L
      /\ \A i \in 1..L : Sents[i] = Sent(i)
      /\ Sents' \in Seq(Seq(Byte)) /\ Len(Sents') = L
      /\ \A i \in 1..L : Sents'[i] = Sent(i)'
  <2>1. Len(typed') = L
    BY <1>0 DEF WriteFileFails
  <2> QED
    BY <1>0, <1>1, <1>2, <2>1, SentsType, SentsNext
<1>5. /\ L - 1 \in 0..L /\ L \in 1..L
      /\ before \in Seq(Seq(Byte)) /\ Len(before) = L - 1
      /\ \A i \in 1..(L - 1) : before[i] = Sents[i]
      /\ SubSeq(Sents, 1, L) = Append(before, Sents[L])
  <2>1. L - 1 \in 0..L /\ L \in 1..L
    BY <1>1
  <2> QED
    BY <1>4, <2>1, PartFacts
<1>6. Sents = Append(before, Text(L))
  <2>1. Sents[L] = Text(L)
    BY <1>1, <1>4, <1>5 DEF Sent
  <2>2. SubSeq(Sents, 1, L) = Sents
    BY <1>4, SubSeqFull
  <2> HIDE DEF before
  <2> QED
    BY <1>5, <2>1, <2>2
<1>7. Sents' = Append(before, <<>>)
  <2> DEFINE more == Append(before, <<>>)
  <2>1. /\ more \in Seq(Seq(Byte)) /\ Len(more) = L /\ more[L] = <<>>
        /\ \A i \in 1..(L - 1) : more[i] = Sents[i]
    <3>1. <<>> \in Seq(Byte)
      BY EmptySeq
    <3> HIDE DEF before
    <3>2. /\ more \in Seq(Seq(Byte)) /\ Len(more) = Len(before) + 1
          /\ more[Len(before) + 1] = <<>>
          /\ \A i \in 1..Len(before) : more[i] = before[i]
      BY <1>5, <3>1, AppendProperties
    <3> HIDE DEF more
    <3> QED
      BY <1>1, <1>5, <3>2
  <2> HIDE DEF more
  <2>2. \A i \in 1..(L - 1) : Sent(i)' = Sent(i)
    <3> SUFFICES ASSUME NEW i \in 1..(L - 1) PROVE Sent(i)' = Sent(i)
      OBVIOUS
    <3>1. i # L
      BY <1>1
    <3> QED
      BY <1>0, <3>1 DEF Sent, Text, WriteFileFails
  <2>3. Sent(L)' = <<>>
    BY <1>0 DEF Sent, WriteFileFails
  <2>4. \A i \in 1..L : i \in 1..(L - 1) \/ i = L
    BY <1>1
  <2>5. \A i \in 1..(L - 1) : i \in 1..L
    BY <1>1
  <2> HIDE DEF before
  <2>6. \A i \in 1..L : Sents'[i] = more[i]
    BY <1>4, <2>1, <2>2, <2>3, <2>4, <2>5
  <2>7. Sents' = more
    BY <1>4, <2>1, <2>6, SeqEqual
  <2> QED
    BY <2>7 DEF more
<1>8. Left' = Left /\ unsent' = <<>>
  BY DEF Left, Unprinted, WriteFileFails, clientVars
<1>9. Stream'
  <2>1. PICK b, t, l : b = FlattenSeq(before) /\ t = Text(L) /\ l = Left
    OBVIOUS
  <2>2. b \in Seq(Byte) /\ t \in Seq(Byte) /\ l \in Seq(Byte)
    <3>1. FlattenSeq(before) \in Seq(Byte)
      BY <1>5, FlattenType
    <3>2. Text(L) \in Seq(Byte)
      BY <1>0, <1>1, <1>5, TextFacts
    <3> QED
      BY <1>1, <2>1, <3>1, <3>2, StreamTypes
  <2>3. FlattenSeq(Append(before, t)) = b \o t
    BY <1>5, <2>1, <2>2, FlattenAppend
  <2>4. FlattenSeq(Append(before, <<>>)) = b \o <<>>
    BY <1>5, <2>1, EmptySeq, FlattenAppend
  <2>5. l \o t = b \o t
    BY <1>1, <1>6, <2>1, <2>3, StreamParts DEF KeptInv, Kept
  <2>6. l = b
    BY ONLY <2>2, <2>5, ConcatSimplifications
  <2> QED
    BY <1>7, <1>8, <2>1, <2>4, <2>6, StreamParts
<1> QED
  BY <1>2, <1>3, <1>9 DEF KeptInv, Kept

\* The first elements of a sequence and the others.
LEMMA SplitFacts ==
  ASSUME NEW S, NEW s \in Seq(S), NEW n \in 0..Len(s)
  PROVE  /\ SubSeq(s, 1, n) \in Seq(S) /\ Len(SubSeq(s, 1, n)) = n
         /\ \A i \in 1..n : SubSeq(s, 1, n)[i] = s[i]
         /\ SubSeq(s, n + 1, Len(s)) \in Seq(S) /\ Len(SubSeq(s, n + 1, Len(s))) = Len(s) - n
         /\ \A i \in 1..(Len(s) - n) : SubSeq(s, n + 1, Len(s))[i] = s[n + i]
         /\ SubSeq(s, 1, n) \o SubSeq(s, n + 1, Len(s)) = s
<1> DEFINE first == SubSeq(s, 1, n)
           rest == SubSeq(s, n + 1, Len(s))
<1>1. n \in Int /\ n >= 0 /\ Len(s) \in Nat /\ n <= Len(s) /\ n + 1 \in Int
  BY LenProperties
<1>2. first \in Seq(S) /\ Len(first) = n /\ \A i \in 1..n : first[i] = s[i]
  BY PartFacts
<1>3. rest \in Seq(S) /\ Len(rest) = Len(s) - n /\ \A i \in 1..(Len(s) - n) : rest[i] = s[n + i]
  <2>1. \A i \in (n + 1)..Len(s) : s[i] \in S
    BY <1>1, ElementOfSeq
  <2>2. /\ rest \in Seq(S)
        /\ Len(rest) = IF n + 1 <= Len(s) THEN Len(s) - (n + 1) + 1 ELSE 0
        /\ \A i \in 1..(Len(s) - (n + 1) + 1) : rest[i] = s[(n + 1) + i - 1]
    BY <1>1, <2>1, SubSeqProperties
  <2> HIDE DEF rest
  <2> QED
    BY <1>1, <2>2
<1>4. first \o rest = s
  <2>1. 1 \in 1..(Len(s) + 1) /\ n \in 0..Len(s) /\ Len(s) \in n..Len(s) /\ n \in (1 - 1)..Len(s)
    BY <1>1
  <2>2. first \o rest = SubSeq(s, 1, Len(s))
    BY <2>1, ConcatAdjacentSubSeq
  <2> QED
    BY <2>2, SubSeqFull
<1> QED
  BY <1>2, <1>3, <1>4

\* A write moves bytes from those that are left to write into the pipe.
LEMMA WriteFileKept == IInv /\ KeptInv /\ WriteFile => KeptInv'
<1> SUFFICES ASSUME IInv, KeptInv, WriteFile PROVE KeptInv'
  OBVIOUS
<1> DEFINE room == PipeSize - Len(data)
           k == IF Len(unsent) < room THEN Len(unsent) ELSE room
           put == SubSeq(unsent, 1, k)
           rest == SubSeq(unsent, k + 1, Len(unsent))
<1>1. /\ TypeOK /\ data \in Seq(Byte) /\ unsent \in Seq(Byte) /\ Len(unsent) \in Nat
      /\ Len(data) \in Nat /\ PipeSize \in Nat /\ Len(data) < PipeSize /\ spc = "write"
      /\ pipe = "connected"
  BY SequenceTypes DEF KeptInv, Kept, WriteFile, Put
<1>2. k \in 0..Len(unsent) /\ Len(data) + k <= PipeSize
  BY <1>1
<1>3. /\ data' = data \o put /\ unsent' = rest
      /\ spc' = IF rest = <<>> THEN "release" ELSE "write"
      /\ UNCHANGED <<input, semaphores, pipe, user_input, kpc, buf, typed, refused, shown>>
  BY DEF WriteFile, Put, clientVars
<1> HIDE DEF k
<1>4. /\ put \in Seq(Byte) /\ Len(put) = k /\ \A i \in 1..k : put[i] = unsent[i]
      /\ rest \in Seq(Byte) /\ Len(rest) = Len(unsent) - k
      /\ \A i \in 1..(Len(unsent) - k) : rest[i] = unsent[k + i]
      /\ put \o rest = unsent
  BY <1>1, <1>2, SplitFacts
<1> HIDE DEF put, rest
<1>5. /\ data' \in Seq(Byte) /\ Len(data') = Len(data) + k
      /\ \A i \in 1..(Len(data) + k) :
           data'[i] = IF i <= Len(data) THEN data[i] ELSE put[i - Len(data)]
  BY <1>1, <1>3, <1>4, ConcatProperties
<1>6. TypeOK'
  <2>1. ~(Len(data') > PipeSize)
    BY <1>1, <1>2, <1>5
  <2>2. spc' \in {"release", "write"} /\ unsent' \in Seq(Byte)
    BY <1>3, <1>4
  <2> QED
    BY <1>1, <1>3, <1>5, <2>1, <2>2 DEF TypeOK, semaphores
<1>7. \A i \in 1..Len(unsent) : Real(unsent[i])
  BY DEF KeptInv, FlowInv
<1>8. \A i \in 1..k : Real(put[i])
  <2> SUFFICES ASSUME NEW i \in 1..k PROVE Real(put[i])
    OBVIOUS
  <2>1. i \in 1..Len(unsent)
    BY <1>1, <1>2
  <2>2. Real(unsent[i]) /\ put[i] = unsent[i]
    BY <2>1, <1>4, <1>7
  <2> QED
    BY <2>2
<1>9. FlowInv'
  <2>1. \A i \in 1..Len(unsent') : Real(unsent'[i])
    <3>1. \A i \in 1..(Len(unsent) - k) : k + i \in 1..Len(unsent)
      BY <1>1, <1>2
    <3> QED
      BY <1>3, <1>4, <1>7, <3>1
  <2>2. \A i \in 1..Len(data') : data'[i].line > 0
    <3> SUFFICES ASSUME NEW i \in 1..(Len(data) + k) PROVE data'[i].line > 0
      BY <1>5
    <3>1. CASE i <= Len(data)
      <4>1. i \in 1..Len(data)
        BY <1>1, <3>1
      <4> QED
        BY <1>5, <3>1, <4>1 DEF KeptInv, FlowInv
    <3>2. CASE ~(i <= Len(data))
      <4>1. PICK j \in 1..k : j = i - Len(data)
        BY <1>1, <1>2, <3>2
      <4> QED
        BY <1>5, <1>8, <3>2, <4>1 DEF Real
    <3> QED
      BY <3>1, <3>2
  <2>3. spc' # "write" => unsent' = <<>>
    BY <1>3
  <2>4. /\ Len(typed') \notin refused' /\ Len(typed') # 0 /\ pipe' = "connected"
        /\ \A i \in 1..Len(buf') : Real(buf'[i])
    BY <1>1, <1>3 DEF KeptInv, FlowInv
  <2> QED
    BY <2>1, <2>2, <2>3, <2>4 DEF FlowInv
<1>10. Stream'
  <2> DEFINE front == Bytes(FlattenSeq(shown)) \o Unprinted
  <2>1. PICK f, d, p, r : f = front /\ d = Bytes(data) /\ p = put /\ r = rest
    OBVIOUS
  <2>2. f \in Seq(Byte) /\ d \in Seq(Byte) /\ p \in Seq(Byte) /\ r \in Seq(Byte)
    BY <1>1, <1>4, <2>1, StreamTypes
  <2>3. Bytes(data \o put) = d \o p
    BY <1>1, <1>4, <1>8, <2>1, BytesConcat, BytesReal
  <2>4. Left = f \o d /\ unsent = p \o r
    BY <1>4, <2>1 DEF Left
  <2>5. Left' = f \o (d \o p) /\ unsent' = r
    BY <1>3, <2>1, <2>3 DEF Left, Unprinted
  <2>6. Sents' = Sents
    BY <1>3 DEF Sents, Sent, Text
  <2>7. (f \o (d \o p)) \o r = (f \o d) \o (p \o r)
    <3>1. (f \o d) \o p = f \o (d \o p)
      BY ONLY <2>2, Regrouped
    <3>2. PICK g : g = f \o d
      OBVIOUS
    <3>3. g \in Seq(Byte)
      BY ONLY <2>2, <3>2, ConcatProperties
    <3>4. p \in Seq(Byte) /\ r \in Seq(Byte)
      BY <2>2
    <3>5. (g \o p) \o r = g \o (p \o r)
      BY ONLY <3>3, <3>4, Regrouped, SMTT(30)
    <3> QED
      BY ONLY <3>1, <3>2, <3>5
  <2> QED
    BY <2>4, <2>5, <2>6, <2>7, StreamParts DEF KeptInv, Kept
<1> QED
  BY <1>6, <1>9, <1>10 DEF KeptInv, Kept

\* An empty line leaves a mark in the pipe, and no byte.
LEMMA WriteEmptyKept == KeptInv /\ WriteEmpty => KeptInv'
<1> SUFFICES ASSUME KeptInv, WriteEmpty PROVE KeptInv'
  OBVIOUS
<1>1. /\ TypeOK /\ data \in Seq(Byte) /\ Len(data) \in Nat /\ Len(typed) \in Nat \ {0}
      /\ spc = "write"
  BY SequenceTypes DEF KeptInv, Kept, FlowInv, WriteEmpty
<1>2. PICK mark : mark = Mark(Len(typed))
  OBVIOUS
<1>3. mark \in Byte /\ mark.pos = 0 /\ mark.line > 0 /\ Only(mark) = <<>>
  BY <1>1, <1>2 DEF Mark, Byte, Only
<1>4. /\ data' = Append(data, mark) /\ spc' = "release"
      /\ UNCHANGED <<input, semaphores, pipe, user_input, unsent, kpc, buf, typed, refused, shown>>
      /\ unsent = <<>>
  BY <1>2 DEF WriteEmpty, clientVars
<1>5. /\ data' \in Seq(Byte) /\ Len(data') = Len(data) + 1 /\ data'[Len(data) + 1] = mark
      /\ \A i \in 1..Len(data) : data'[i] = data[i]
  BY <1>1, <1>3, <1>4, AppendProperties
<1>6. TypeOK'
  <2>1. Last(data') = mark
    BY <1>5 DEF Last
  <2> QED
    BY <1>1, <1>3, <1>4, <1>5, <2>1 DEF TypeOK, semaphores
<1>7. FlowInv'
  <2>1. \A i \in 1..Len(data') : i \in 1..Len(data) \/ i = Len(data) + 1
    BY <1>1, <1>5
  <2>2. \A i \in 1..Len(data') : data'[i].line > 0
    BY <1>3, <1>5, <2>1 DEF KeptInv, FlowInv
  <2> QED
    BY <1>4, <2>2 DEF KeptInv, FlowInv
<1>8. Stream'
  <2>1. Bytes(data') = Bytes(data)
    <3>1. PICK d : d = Bytes(data)
      OBVIOUS
    <3>2. d \in Seq(Byte)
      BY <1>1, <3>1, BytesType
    <3>3. Bytes(Append(data, mark)) = Bytes(data) \o Only(mark)
      BY <1>1, <1>3, BytesAppend
    <3>4. Bytes(Append(data, mark)) = d \o <<>>
      BY ONLY <1>3, <3>1, <3>3
    <3>5. d \o <<>> = d
      BY ONLY <3>2, ConcatEmptySeq
    <3> QED
      BY ONLY <1>4, <3>1, <3>4, <3>5
  <2>2. Left' = Left /\ Sents' = Sents
    BY <1>4, <2>1 DEF Left, Unprinted, Sents, Sent, Text
  <2> QED
    BY <1>4, <2>2, StreamParts DEF KeptInv, Kept
<1> QED
  BY <1>6, <1>7, <1>8 DEF KeptInv, Kept

\* Where the first mark is, and how much is read at a time.
LEMMA ReadSizeFacts ==
  ASSUME TypeOK, data # <<>>
  PROVE  /\ Len(data) \in Nat \ {0}
         /\ FirstMark = 1 => data[1].pos = 0 /\ ReadSize = 0
         /\ FirstMark # 1 => /\ ReadSize \in 1..Len(data) /\ ReadSize <= BUFSIZ
                             /\ \A i \in 1..ReadSize : data[i].pos # 0
<1> DEFINE marks == {i \in 1..Len(data) : data[i].pos = 0}
<1>1. /\ Len(data) \in Nat \ {0} /\ DOMAIN data = 1..Len(data) /\ BUFSIZ \in Nat \ {0}
  BY SequenceTypes, EmptySeq
<1>2. CASE marks = {}
  <2>1. FirstMark = Len(data) + 1
    BY <1>1, <1>2 DEF FirstMark
  <2>2. \A i \in 1..Len(data) : data[i].pos # 0
    BY <1>2
  <2>3. ReadSize = IF Len(data) < BUFSIZ THEN Len(data) ELSE BUFSIZ
    BY <1>1, <2>1 DEF ReadSize
  <2> QED
    BY <1>1, <2>1, <2>2, <2>3
<1>3. CASE marks # {}
  <2>1. PICK m \in marks : \A j \in marks : m <= j
    <3>1. marks \in SUBSET Nat
      BY <1>1
    <3> HIDE DEF marks
    <3> QED
      BY <1>3, <3>1, LeastOfNats
  <2>2. data[m].pos = 0 /\ m \in DOMAIN data /\ \A j \in 1..(m - 1) : data[j].pos # 0
    <3>1. \A j \in 1..(m - 1) : j \in 1..Len(data) /\ ~(m <= j)
      BY <1>1
    <3> QED
      BY <1>1, <2>1, <3>1
  <2>3. FirstMark = CHOOSE i \in DOMAIN data :
                      data[i].pos = 0 /\ \A j \in 1..(i - 1) : data[j].pos # 0
    BY <2>2 DEF FirstMark
  <2>4. PICK f : f = FirstMark
    OBVIOUS
  <2>5. f \in 1..Len(data) /\ data[f].pos = 0 /\ \A j \in 1..(f - 1) : data[j].pos # 0
    BY <1>1, <2>2, <2>3, <2>4
  <2>6. ReadSize = IF f - 1 < BUFSIZ THEN f - 1 ELSE BUFSIZ
    BY <2>4 DEF ReadSize
  <2>7. f # 1 => ReadSize \in 1..(f - 1) /\ ReadSize \in 1..Len(data) /\ ReadSize <= BUFSIZ
    BY <1>1, <2>5, <2>6
  <2>8. f = 1 => ReadSize = 0
    BY <1>1, <2>6
  <2>9. f # 1 => \A i \in 1..ReadSize : i \in 1..(f - 1)
    BY <2>5, <2>7
  <2> QED
    BY <1>1, <2>4, <2>5, <2>7, <2>8, <2>9
<1> QED
  BY <1>2, <1>3

\* What is read leaves the pipe; a mark is read as nothing.
LEMMA ReadFileKept == IInv /\ KeptInv /\ ReadFile => KeptInv'
<1> SUFFICES ASSUME IInv, KeptInv, ReadFile PROVE KeptInv'
  OBVIOUS
<1>1. /\ TypeOK /\ data \in Seq(Byte) /\ data # <<>> /\ Len(data) \in Nat \ {0}
      /\ BUFSIZ \in Nat \ {0} /\ kpc = "read" /\ spc # "write"
  BY SequenceTypes, EmptySeq DEF KeptInv, Kept, ReadFile, IInv, Counts, OneTurn
<1> DEFINE n == IF FirstMark = 1 THEN 1 ELSE ReadSize
           first == SubSeq(data, 1, n)
           rest == SubSeq(data, n + 1, Len(data))
<1>2. /\ n \in 1..Len(data)
      /\ FirstMark = 1 => data[1].pos = 0 /\ ReadSize = 0
      /\ FirstMark # 1 => /\ ReadSize = n /\ n <= BUFSIZ
                          /\ \A i \in 1..n : data[i].pos # 0
  BY <1>1, ReadSizeFacts
<1>3. /\ first \in Seq(Byte) /\ Len(first) = n /\ \A i \in 1..n : first[i] = data[i]
      /\ rest \in Seq(Byte) /\ Len(rest) = Len(data) - n
      /\ \A i \in 1..(Len(data) - n) : rest[i] = data[n + i]
      /\ first \o rest = data
  <2>1. n \in 0..Len(data)
    BY <1>1, <1>2
  <2> HIDE DEF n
  <2> QED
    BY <1>1, <2>1, SplitFacts
<1>4. /\ buf' = SubSeq(data, 1, ReadSize) /\ data' = rest /\ kpc' = "print"
      /\ UNCHANGED <<input, semaphores, pipe, spc, user_input, unsent, typed, refused, shown>>
  <2>1. (IF FirstMark = 1 THEN 2 ELSE ReadSize + 1) = n + 1
    OBVIOUS
  <2> QED
    BY <2>1 DEF ReadFile, serverVars
<1>5. \A i \in 1..Len(data) : data[i].line > 0 /\ data[i] \in Byte
  BY <1>1, ElementOfSeq DEF KeptInv, FlowInv
<1>6. /\ FirstMark = 1 => buf' = <<>> /\ Bytes(first) = <<>>
      /\ FirstMark # 1 => buf' = first /\ Bytes(first) = first /\ Len(first) <= BUFSIZ
  <2>1. ASSUME FirstMark = 1 PROVE buf' = <<>> /\ Bytes(first) = <<>>
    <3>1. buf' = <<>>
      BY <1>2, <1>4, <2>1, SubSeqEmpty
    <3>2. PICK b \in Byte : b = data[1]
      BY <1>1, <1>5
    <3>3. first = Append(<<>>, b) /\ Only(b) = <<>>
      <4>1. SubSeq(data, 1, 1) = Append(SubSeq(data, 1, 1 - 1), data[1])
        BY <1>1, PartFacts
      <4>2. SubSeq(data, 1, 1 - 1) = <<>>
        BY SubSeqEmpty
      <4>3. first = SubSeq(data, 1, 1)
        BY <2>1
      <4> HIDE DEF first
      <4>4. Only(b) = <<>>
        BY <1>2, <2>1, <3>2 DEF Only
      <4> QED
        BY <3>2, <4>1, <4>2, <4>3, <4>4
    <3>4. Bytes(first) = Bytes(<<>>) \o Only(b)
      BY <3>3, EmptySeq, BytesAppend
    <3>5. <<>> \o <<>> = <<>>
      BY EmptySeq, ConcatEmptySeq
    <3> HIDE DEF first
    <3> QED
      BY <3>1, <3>3, <3>4, <3>5, BytesEmpty
  <2>2. ASSUME FirstMark # 1 PROVE buf' = first /\ Bytes(first) = first /\ Len(first) <= BUFSIZ
    <3>1. buf' = first
      BY <1>2, <1>4, <2>2
    <3>2. \A i \in 1..Len(first) : Real(first[i])
      <4>1. \A i \in 1..n : data[i].pos > 0 /\ data[i].line > 0
        <5>1. \A i \in 1..n : i \in 1..Len(data)
          BY <1>1, <1>2
        <5>2. \A i \in 1..n : data[i].pos \in Nat /\ data[i].pos # 0
          BY <1>2, <1>5, <2>2, <5>1 DEF Byte
        <5> HIDE DEF n
        <5> QED
          BY <1>5, <5>1, <5>2
      <4> HIDE DEF n, first
      <4> QED
        BY <1>3, <4>1 DEF Real
    <3> HIDE DEF first
    <3> QED
      BY <1>2, <1>3, <2>2, <3>1, <3>2, BytesReal
  <2> QED
    BY <2>1, <2>2
<1> HIDE DEF n, first, rest
<1>7. buf' \in Seq(Byte) /\ Len(buf') <= BUFSIZ /\ buf' = Bytes(first)
  <2>1. <<>> \in Seq(Byte) /\ Len(<<>>) <= BUFSIZ
    BY <1>1, EmptySeq
  <2> QED
    BY <1>3, <1>6, <2>1
<1>8. TypeOK'
  <2>1. ASSUME Len(data') > PipeSize PROVE Last(data').pos = 0
    <3>1. Len(data) - n > PipeSize /\ PipeSize \in Nat
      BY <1>3, <1>4, <2>1, SizesAssumption
    <3>2. Len(data) - n \in 1..(Len(data) - n) /\ n + (Len(data) - n) = Len(data)
          /\ Len(data) > PipeSize
      BY <1>1, <1>2, <3>1
    <3>3. rest[Len(data) - n] = data[Len(data)]
      BY <1>3, <3>2
    <3>4. Last(data).pos = 0
      BY <1>1, <3>2 DEF TypeOK
    <3> QED
      BY <1>3, <1>4, <3>3, <3>4 DEF Last
  <2> QED
    BY <1>1, <1>3, <1>4, <1>7, <2>1 DEF TypeOK, semaphores
<1>9. FlowInv'
  <2>1. \A i \in 1..Len(data') : data'[i].line > 0
    <3>1. \A i \in 1..(Len(data) - n) : n + i \in 1..Len(data)
      BY <1>1, <1>2
    <3> QED
      BY <1>3, <1>4, <1>5, <3>1
  <2>2. \A i \in 1..Len(buf') : Real(buf'[i])
    <3>1. CASE FirstMark = 1
      <4>1. Len(buf') = 0
        BY <1>6, <3>1, EmptySeq
      <4> QED
        BY <4>1
    <3>2. CASE FirstMark # 1
      <4>1. buf' = first /\ Len(first) = n /\ n \in 1..Len(data) /\ \A i \in 1..n : data[i].pos # 0
        BY <1>2, <1>3, <1>6, <3>2
      <4>2. \A i \in 1..n : i \in 1..Len(data) /\ data[i].pos \in Nat /\ data[i].pos # 0
        BY <1>1, <1>5, <4>1 DEF Byte
      <4>3. \A i \in 1..n : Real(data[i])
        BY <1>5, <4>2 DEF Real
      <4> QED
        BY <1>3, <4>1, <4>3
    <3> QED
      BY <3>1, <3>2
  <2> QED
    BY <1>1, <1>4, <2>1, <2>2 DEF KeptInv, FlowInv
<1>10. Stream'
  <2>1. PICK s, b, d : s = Bytes(FlattenSeq(shown)) /\ b = Bytes(first) /\ d = Bytes(rest)
    OBVIOUS
  <2>2. s \in Seq(Byte) /\ b \in Seq(Byte) /\ d \in Seq(Byte)
    BY <1>1, <1>3, <2>1, StreamTypes, BytesType
  <2>3. Bytes(data) = b \o d
    BY <1>3, <2>1, BytesConcat
  <2>4. Left = (s \o <<>>) \o (b \o d)
    BY <1>1, <2>1, <2>3 DEF Left, Unprinted
  <2>5. Left' = (s \o b) \o d
    BY <1>4, <1>7, <2>1 DEF Left, Unprinted
  <2>6. s \o <<>> = s
    BY ONLY <2>2, ConcatEmptySeq
  <2>7. (s \o b) \o d = s \o (b \o d)
    BY ONLY <2>2, Regrouped
  <2>8. Left' = Left
    BY ONLY <2>4, <2>5, <2>6, <2>7
  <2>9. Sents' = Sents
    BY <1>4 DEF Sents, Sent, Text
  <2> QED
    BY <1>4, <2>8, <2>9, StreamParts DEF KeptInv, Kept
<1> QED
  BY <1>8, <1>9, <1>10 DEF KeptInv, Kept

\* Nothing is read any more when the server has closed the pipe.
LEMMA ReadFailsKept == KeptInv /\ ReadFileFails => KeptInv'
<1> SUFFICES ASSUME KeptInv, ReadFileFails PROVE KeptInv'
  OBVIOUS
<1>1. /\ kpc = "read" /\ kpc' = "print" /\ buf' = <<>>
      /\ UNCHANGED <<input, semaphores, pipe, data, spc, user_input, unsent, typed, refused, shown>>
  BY DEF ReadFileFails, serverVars
<1>2. Unprinted' = Unprinted
  BY <1>1 DEF Unprinted
<1>3. Stream'
  BY <1>1, <1>2, StreamFrame DEF KeptInv, Kept
<1>4. buf' \in Seq(Byte) /\ Len(buf') = 0 /\ 0 <= BUFSIZ
  BY <1>1, EmptySeq, SizesAssumption
<1>5. TypeOK'
  BY <1>1, <1>4 DEF KeptInv, Kept, TypeOK, semaphores
<1>6. FlowInv'
  <2>1. \A i \in 1..Len(buf') : FALSE
    BY <1>4
  <2> QED
    BY <1>1, <2>1 DEF KeptInv, FlowInv, Text
<1> QED
  BY <1>3, <1>5, <1>6 DEF KeptInv, Kept

\* What is printed is what was read; a byte from behind the buffer does not count.
LEMMA ShowKept == KeptInv /\ Show => KeptInv'
<1> SUFFICES ASSUME KeptInv, Show PROVE KeptInv'
  OBVIOUS
<1>1. /\ TypeOK /\ kpc = "print" /\ kpc' = "release" /\ shown' = Append(shown, CString(buf))
      /\ UNCHANGED <<input, semaphores, pipe, data, spc, user_input, unsent, buf, typed, refused>>
  BY DEF KeptInv, Kept, Show, serverVars
<1>2. buf \in Seq(Byte) /\ shown \in Seq(Seq(Byte)) /\ Bytes(buf) = buf
  BY <1>1, SequenceTypes, BytesReal DEF KeptInv, FlowInv
<1>3. CString(buf) \in Seq(Byte) /\ Bytes(CString(buf)) = buf
  <2>1. Past \in Byte /\ Only(Past) = <<>>
    BY DEF Past, Byte, Only
  <2>2. Append(buf, Past) \in Seq(Byte)
    BY <1>2, <2>1, AppendProperties
  <2>3. Bytes(Append(buf, Past)) = buf \o <<>>
    BY <1>2, <2>1, BytesAppend
  <2>4. buf \o <<>> = buf
    BY <1>2, ConcatEmptySeq
  <2> QED
    BY <1>2, <2>2, <2>3, <2>4 DEF CString
<1>4. TypeOK'
  <2>1. shown' \in Seq(Seq(Byte))
    BY <1>1, <1>2, <1>3, AppendProperties
  <2> QED
    BY <1>1, <2>1 DEF TypeOK, semaphores
<1>5. FlowInv'
  BY <1>1 DEF KeptInv, FlowInv, Text
<1>6. Stream'
  <2>1. PICK f, c, s, d : /\ f = FlattenSeq(shown) /\ c = CString(buf)
                          /\ s = Bytes(f) /\ d = Bytes(data)
    OBVIOUS
  <2>2. f \in Seq(Byte) /\ c \in Seq(Byte) /\ s \in Seq(Byte) /\ d \in Seq(Byte) /\ Bytes(c) = buf
    BY <1>1, <1>3, <2>1, StreamTypes
  <2>3. FlattenSeq(Append(shown, c)) = f \o c
    BY <1>2, <2>1, <2>2, FlattenAppend
  <2>4. Bytes(f \o c) = s \o buf
    <3>1. Bytes(f \o c) = Bytes(f) \o Bytes(c)
      BY <2>2, BytesConcat
    <3> QED
      BY ONLY <2>1, <2>2, <3>1
  <2>5. Left = (s \o buf) \o d
    BY <1>1, <2>1 DEF Left, Unprinted
  <2>6. Left' = ((s \o buf) \o <<>>) \o d
    BY <1>1, <2>1, <2>3, <2>4 DEF Left, Unprinted
  <2>7. s \o buf \in Seq(Byte)
    BY ONLY <1>2, <2>2, ConcatProperties
  <2>8. (s \o buf) \o <<>> = s \o buf
    BY ONLY <2>7, ConcatEmptySeq
  <2>9. Left' = Left
    BY ONLY <2>5, <2>6, <2>8
  <2>10. Sents' = Sents
    BY <1>1 DEF Sents, Sent, Text
  <2> QED
    BY <1>1, <2>9, <2>10, StreamParts DEF KeptInv, Kept
<1> QED
  BY <1>4, <1>5, <1>6 DEF KeptInv, Kept

\* At the start there is no byte.
LEMMA InitKept == Init => KeptInv
<1> SUFFICES ASSUME Init PROVE KeptInv
  OBVIOUS
<1>1. /\ data = <<>> /\ unsent = <<>> /\ buf = <<>> /\ shown = <<>> /\ typed = <<>> /\ refused = {}
      /\ spc = "start" /\ kpc = "start" /\ Len(<<>>) = 0 /\ <<>> \in Seq(Byte)
      /\ <<>> \in Seq(Seq(Byte)) /\ <<>> \in Seq(TextLine)
  BY EmptySeq DEF Init
<1>2. TypeOK
  <2>1. Empty \in TextLine
    BY DEF Empty, TextLine
  <2>2. ~(0 > PipeSize) /\ 0 <= BUFSIZ
    BY SizesAssumption
  <2> QED
    BY <1>1, <2>1, <2>2 DEF Init, TypeOK
<1>3. FlowInv
  <2>1. \A i \in 1..Len(<<>>) : FALSE
    BY <1>1
  <2> QED
    BY <1>1, <2>1 DEF FlowInv
<1>4. Stream
  <2>1. Sents = <<>>
    <3>1. Sents \in Seq(Seq(Byte)) /\ Len(Sents) = 0
      BY <1>1, <1>2, SentsType
    <3> QED
      BY <3>1, EmptySeq
  <2>2. Bytes(FlattenSeq(<<>>)) = <<>> /\ Bytes(<<>>) = <<>> /\ FlattenSeq(Sents) = <<>>
    BY <2>1, FlattenEmpty, BytesEmpty
  <2>3. <<>> \o <<>> = <<>>
    BY EmptySeq, ConcatEmptySeq
  <2> QED
    BY <1>1, <2>2, <2>3, StreamParts DEF Left, Unprinted
<1> QED
  BY <1>2, <1>3, <1>4 DEF KeptInv, Kept

\* Every step keeps the types and the stream.
LEMMA StepKept == IInv /\ KeptInv /\ [Next]_vars => KeptInv'
<1> SUFFICES ASSUME IInv, KeptInv, [Next]_vars PROVE KeptInv'
  OBVIOUS
<1>1. CASE UNCHANGED vars
  <2>1. TypeOK'
    BY <1>1 DEF KeptInv, Kept, TypeOK, vars, semaphores, serverVars, clientVars
  <2> QED
    BY <1>1, <2>1, KeptFrame DEF vars, serverVars, clientVars
<1> QED
  BY <1>1, KeptFrames, GetLineKept, WriteFailsKept, WriteFileKept, WriteEmptyKept, ReadFileKept,
     ReadFailsKept, ShowKept DEF Next, Server, Client

\* Whatever the lengths of the lines, and whether a client is there or not, no byte that was
\* not refused is lost, doubled or moved between the server's line and the screen.
THEOREM StreamKept == Spec => []Kept
<1>1. KeptInv => Kept
  BY DEF KeptInv
<1> QED
  BY <1>1, InitKept, StepKept, InitOneTurn, StepKeepsTurn, PTL DEF Spec

-----------------------------------------------------------------------------
(****************************************************************************)
(* Who has the turn can use it.  The argument: until a line is refused, the *)
(* client is only let in when the pipe holds something; and it only ends    *)
(* after "\disconnect/", with which the server has ended before, since no   *)
(* line follows that one.                                                   *)
(****************************************************************************)

\* The bytes of a sequence are of lines that were typed.
Known(s) == \A i \in 1..Len(s) : s[i].line <= Len(typed)

LineInv == Known(unsent) /\ Known(data) /\ Known(buf)

\* "\disconnect/" is the last line typed, and the server ends with it.
EndInv ==
  /\ \A i \in 1..Len(typed) :
       typed[i].dis => i = Len(typed) /\ spc \notin {"start", "wait", "input", "failed"}
  /\ spc \in {"write", "release"} => Len(typed) # 0 /\ user_input = typed[Len(typed)]
  /\ kpc = "done" => spc \in {"close", "return", "done"}
  /\ kpc = "failed" => spc = "done"

\* The pipe waits for the client, and the client is let in to bytes.
WaitInv ==
  /\ kpc = "start" /\ spc \notin {"start", "failed", "return", "done"} => pipe = "listening"
  /\ refused = {} /\ (spc = "release" \/ client_can_print = 1 \/ kpc = "read") => data # <<>>

\* The parts of a sequence are known as it is, and so are two sequences one behind the other.
LEMMA KnownParts ==
  ASSUME NEW s \in Seq(Byte), NEW n \in 0..Len(s), Known(s)
  PROVE  Known(SubSeq(s, 1, n)) /\ Known(SubSeq(s, n + 1, Len(s)))
<1>1. Len(s) \in Nat /\ n \in Int /\ n >= 0 /\ n <= Len(s)
  BY LenProperties
<1>2. PICK first, rest : first = SubSeq(s, 1, n) /\ rest = SubSeq(s, n + 1, Len(s))
  OBVIOUS
<1>3. /\ Len(first) = n /\ \A i \in 1..n : first[i] = s[i]
      /\ Len(rest) = Len(s) - n /\ \A i \in 1..(Len(s) - n) : rest[i] = s[n + i]
  BY <1>2, SplitFacts
<1>4. \A i \in 1..n : i \in 1..Len(s)
  BY <1>1
<1>5. \A i \in 1..(Len(s) - n) : n + i \in 1..Len(s)
  BY <1>1
<1>6. Known(first) /\ Known(rest)
  BY <1>3, <1>4, <1>5 DEF Known
<1> QED
  BY <1>2, <1>6

LEMMA KnownJoined ==
  ASSUME NEW s \in Seq(Byte), NEW t \in Seq(Byte), Known(s), Known(t)
  PROVE  Known(s \o t)
<1>1. Len(s) \in Nat /\ Len(t) \in Nat
  BY LenProperties
<1>2. PICK st : st = s \o t
  OBVIOUS
<1>3. /\ Len(st) = Len(s) + Len(t)
      /\ \A i \in 1..(Len(s) + Len(t)) : st[i] = IF i <= Len(s) THEN s[i] ELSE t[i - Len(s)]
  BY <1>2, ConcatProperties
<1>4. \A i \in 1..(Len(s) + Len(t)) :
        IF i <= Len(s) THEN i \in 1..Len(s) ELSE i - Len(s) \in 1..Len(t)
  BY <1>1
<1>5. Known(st)
  BY <1>3, <1>4 DEF Known
<1> QED
  BY <1>2, <1>5

LEMMA KnownEmpty == Known(<<>>)
BY DEF Known

\* What is on its way is moved, or of the line just typed.
LEMMA LineKept == KeptInv /\ LineInv /\ [Next]_vars => LineInv'
<1> SUFFICES ASSUME KeptInv, LineInv, [Next]_vars PROVE LineInv'
  OBVIOUS
<1>1. /\ TypeOK /\ data \in Seq(Byte) /\ unsent \in Seq(Byte) /\ buf \in Seq(Byte)
      /\ Len(data) \in Nat /\ Len(unsent) \in Nat /\ Len(typed) \in Nat /\ PipeSize \in Nat
      /\ typed \in Seq(TextLine)
  BY SequenceTypes DEF KeptInv, Kept
<1>2. ASSUME typed' = typed PROVE \A s : Known(s)' <=> Known(s)
  BY <1>2 DEF Known
<1>3. CASE UNCHANGED <<unsent, data, buf, typed>>
  BY <1>3 DEF LineInv, Known
<1>4. CASE GetLine
  <2>1. input[Len(typed) + 1] \in TextLine
    <3>1. input \in Seq(TextLine) /\ Len(typed) + 1 \in 1..Len(input)
      <4>1. input \in Seq(TextLine)
        BY <1>1, InputsAssumption DEF TypeOK
      <4> QED
        BY <1>1, <1>4, <4>1, LenProperties DEF GetLine
    <3> QED
      BY <3>1, ElementOfSeq
  <2>2. Len(typed') = Len(typed) + 1
    BY <1>1, <1>4, <2>1, AppendProperties DEF GetLine
  <2>3. PICK size : /\ size = user_input'.size /\ size \in Nat
                    /\ unsent' = [p \in 1..size |-> [line |-> Len(typed'), pos |-> p]]
    BY <1>4, <2>1 DEF GetLine, TextLine
  <2>4. DOMAIN unsent' = 1..size /\ \A p \in 1..size : unsent'[p].line = Len(typed) + 1
    BY <2>2, <2>3
  <2>5. Len(unsent') = size
    <3>1. \A p \in 1..size : [line |-> Len(typed'), pos |-> p] \in Byte
      BY <1>1, <2>2, <2>3 DEF Byte
    <3> QED
      BY <2>3, <3>1, IsASeq
  <2>6. \A i \in 1..Len(unsent') : unsent'[i].line <= Len(typed')
    BY <1>1, <2>2, <2>4, <2>5
  <2>7. \A s \in Seq(Byte) : Known(s) => \A i \in 1..Len(s) : s[i].line <= Len(typed')
    <3> SUFFICES ASSUME NEW s \in Seq(Byte), Known(s), NEW i \in 1..Len(s)
                 PROVE  s[i].line <= Len(typed) + 1
      BY <2>2
    <3>1. s[i] \in Byte
      BY ElementOfSeq
    <3>2. s[i].line <= Len(typed)
      BY DEF Known
    <3>3. s[i].line \in Nat
      BY <3>1 DEF Byte
    <3> QED
      BY <1>1, <3>2, <3>3
  <2>8. UNCHANGED <<data, buf>>
    BY <1>4 DEF GetLine, clientVars
  <2> QED
    BY <1>1, <2>6, <2>7, <2>8 DEF LineInv, Known
<1>5. CASE WriteFileFails
  <2>1. unsent' = <<>> /\ UNCHANGED <<data, buf, typed>>
    BY <1>5 DEF WriteFileFails, clientVars
  <2> QED
    BY <1>2, <2>1, KnownEmpty DEF LineInv
<1>6. CASE WriteFile
  <2>1. PICK n \in 0..Len(unsent) :
               /\ data' = data \o SubSeq(unsent, 1, n)
               /\ unsent' = SubSeq(unsent, n + 1, Len(unsent))
    <3> DEFINE k == IF Len(unsent) < PipeSize - Len(data) THEN Len(unsent) ELSE PipeSize - Len(data)
    <3>1. k \in 0..Len(unsent)
      BY <1>1, <1>6 DEF WriteFile, Put
    <3>2. data' = data \o SubSeq(unsent, 1, k) /\ unsent' = SubSeq(unsent, k + 1, Len(unsent))
      BY <1>6 DEF WriteFile, Put
    <3> HIDE DEF k
    <3> QED
      BY <3>1, <3>2
  <2>2. UNCHANGED <<buf, typed>>
    BY <1>6 DEF WriteFile, Put, clientVars
  <2>3. PICK put, rest : put = SubSeq(unsent, 1, n) /\ rest = SubSeq(unsent, n + 1, Len(unsent))
    OBVIOUS
  <2>4. Known(put) /\ Known(rest) /\ put \in Seq(Byte)
    BY <1>1, <2>3, KnownParts, SplitFacts DEF LineInv
  <2>5. Known(data \o put)
    BY <1>1, <2>4, KnownJoined DEF LineInv
  <2> QED
    BY <1>2, <2>1, <2>2, <2>3, <2>4, <2>5 DEF LineInv
<1>7. CASE WriteEmpty
  <2>1. PICK m : m = Mark(Len(typed))
    OBVIOUS
  <2>2. m \in Byte /\ m.line = Len(typed)
    BY <1>1, <2>1 DEF Mark, Byte
  <2>3. data' = Append(data, m) /\ UNCHANGED <<unsent, buf, typed>>
    BY <1>7, <2>1 DEF WriteEmpty, clientVars
  <2>4. /\ Len(data') = Len(data) + 1 /\ data'[Len(data) + 1] = m
        /\ \A i \in 1..Len(data) : data'[i] = data[i]
    BY <1>1, <2>2, <2>3, AppendProperties
  <2>5. \A i \in 1..Len(data') : i \in 1..Len(data) \/ i = Len(data) + 1
    BY <1>1, <2>4
  <2>6. Known(data')
    BY <1>1, <2>2, <2>4, <2>5 DEF LineInv, Known
  <2> QED
    BY <1>2, <2>3, <2>6 DEF LineInv
<1>8. CASE ReadFile
  <2>1. /\ buf' = SubSeq(data, 1, ReadSize)
        /\ data' = SubSeq(data, IF FirstMark = 1 THEN 2 ELSE ReadSize + 1, Len(data))
        /\ data # <<>> /\ UNCHANGED <<unsent, typed>>
    BY <1>8 DEF ReadFile, serverVars
  <2>2. /\ ReadSize \in 0..Len(data)
        /\ \E n \in 0..Len(data) : data' = SubSeq(data, n + 1, Len(data))
    <3>1. CASE FirstMark = 1
      <4>1. Len(data) \in Nat \ {0} /\ ReadSize = 0 /\ 1 \in 0..Len(data)
        BY <1>1, <2>1, <3>1, ReadSizeFacts
      <4>2. data' = SubSeq(data, 1 + 1, Len(data))
        BY <2>1, <3>1
      <4> QED
        BY <4>1, <4>2
    <3>2. CASE FirstMark # 1
      <4>1. ReadSize \in 0..Len(data)
        BY <1>1, <2>1, <3>2, ReadSizeFacts
      <4> QED
        BY <2>1, <3>2, <4>1
    <3> QED
      BY <3>1, <3>2
  <2>3. Known(SubSeq(data, 1, ReadSize))
    BY <1>1, <2>2, KnownParts DEF LineInv
  <2>4. Known(data')
    <3>1. PICK n \in 0..Len(data) : data' = SubSeq(data, n + 1, Len(data))
      BY <2>2
    <3>2. Known(SubSeq(data, n + 1, Len(data)))
      BY <1>1, KnownParts DEF LineInv
    <3> QED
      BY <3>1, <3>2
  <2> QED
    BY <1>2, <2>1, <2>3, <2>4 DEF LineInv
<1>9. CASE ReadFileFails
  <2>1. buf' = <<>> /\ UNCHANGED <<data, unsent, typed>>
    BY <1>9 DEF ReadFileFails, serverVars
  <2> QED
    BY <1>2, <2>1, KnownEmpty DEF LineInv
<1>10. ASSUME \/ StartServer \/ WaitEnter \/ ReleaseClient \/ CloseServer \/ ExitServer
              \/ Connect \/ OpenSemaphores \/ OpenFails \/ WaitPrint \/ Disconnect \/ Show
              \/ ReleaseServer \/ UNCHANGED vars
       PROVE  UNCHANGED <<unsent, data, buf, typed>>
  BY <1>10 DEF StartServer, WaitEnter, ReleaseClient, CloseServer, ExitServer, vars, Connect,
     OpenSemaphores, OpenFails, WaitPrint, Disconnect, Show, ReleaseServer, serverVars, clientVars
<1> QED
  BY <1>3, <1>4, <1>5, <1>6, <1>7, <1>8, <1>9, <1>10 DEF Next, Server, Client

\* Only the line just typed can be "\disconnect/", and the client reads it when the server
\* has ended.
LEMMA EndKept == IInv /\ KeptInv /\ LineInv /\ EndInv /\ [Next]_vars => EndInv'
<1> SUFFICES ASSUME IInv, KeptInv, LineInv, EndInv, [Next]_vars PROVE EndInv'
  OBVIOUS
<1>1. /\ typed \in Seq(TextLine) /\ Len(typed) \in Nat /\ TypeOK
  BY SequenceTypes DEF KeptInv, Kept
<1>2. ASSUME UNCHANGED <<typed, user_input, kpc>>,
             spc' \in {"start", "wait", "input", "failed"} =>
               \/ spc \in {"start", "wait", "input", "failed"}
               \/ spc = "release" /\ ~user_input.dis,
             spc' \in {"write", "release"} => spc \in {"write", "release"},
             spc \in {"close", "return", "done"} => spc' \in {"close", "return", "done"},
             spc = "done" => spc' = "done"
      PROVE  EndInv'
  <2>1. ASSUME NEW i \in 1..Len(typed), typed[i].dis
        PROVE  i = Len(typed) /\ spc' \notin {"start", "wait", "input", "failed"}
    BY <1>2, <2>1 DEF EndInv
  <2> QED
    BY <1>2, <2>1 DEF EndInv
<1>3. CASE UNCHANGED <<typed, user_input, kpc, spc>>
  BY <1>2, <1>3
<1>4. CASE StartServer
  BY <1>2, <1>4 DEF StartServer, clientVars
<1>5. CASE WaitEnter
  BY <1>2, <1>5 DEF WaitEnter, clientVars
<1>6. CASE GetLine
  <2>1. PICK l : l = input[Len(typed) + 1]
    OBVIOUS
  <2>2. l \in TextLine
    <3>1. input \in Seq(TextLine)
      BY <1>1, InputsAssumption DEF TypeOK
    <3>2. Len(typed) + 1 \in 1..Len(input)
      BY <1>1, <1>6, <3>1, LenProperties DEF GetLine
    <3> QED
      BY <2>1, <3>1, <3>2, ElementOfSeq
  <2>3. /\ spc = "input" /\ spc' = "write" /\ user_input' = l /\ typed' = Append(typed, l)
        /\ kpc' = kpc
    BY <1>6, <2>1 DEF GetLine, clientVars
  <2>4. /\ Len(typed') = Len(typed) + 1 /\ typed'[Len(typed) + 1] = l
        /\ \A i \in 1..Len(typed) : typed'[i] = typed[i]
    BY <1>1, <2>2, <2>3, AppendProperties
  <2>5. \A i \in 1..Len(typed) : ~typed[i].dis
    BY <2>3 DEF EndInv
  <2>6. \A i \in 1..Len(typed') : i \in 1..Len(typed) \/ i = Len(typed')
    BY <1>1, <2>4
  <2>7. \A i \in 1..Len(typed') : typed'[i].dis => i = Len(typed')
    BY <2>4, <2>5, <2>6
  <2> QED
    BY <1>1, <2>3, <2>4, <2>7 DEF EndInv
<1>7. CASE WriteFileFails
  BY <1>2, <1>7 DEF WriteFileFails, clientVars
<1>8. CASE WriteFile
  <2>1. spc = "write" /\ spc' \in {"write", "release"} /\ UNCHANGED <<typed, user_input, kpc>>
    BY <1>8 DEF WriteFile, Put, clientVars
  <2> QED
    BY <1>2, <2>1
<1>9. CASE WriteEmpty
  BY <1>2, <1>9 DEF WriteEmpty, clientVars
<1>10. CASE ReleaseClient
  BY <1>2, <1>10 DEF ReleaseClient, clientVars
<1>11. CASE CloseServer \/ ExitServer
  BY <1>2, <1>11 DEF CloseServer, ExitServer, clientVars
<1>12. CASE Disconnect
  <2>1. PICK n : n = buf[1].line
    OBVIOUS
  <2>2. typed[n].dis /\ n \in 1..Len(typed)
    <3>1. buf # <<>> /\ typed[n].dis
      BY <1>12, <2>1 DEF Disconnect, IsDisconnect
    <3>2. 1 \in 1..Len(buf) /\ buf[1] \in Byte
      BY <1>1, <3>1, SequenceTypes, EmptySeq, ElementOfSeq
    <3>3. n \in Nat /\ n > 0
      BY <2>1, <3>2 DEF Byte, KeptInv, FlowInv, Real
    <3>4. n <= Len(typed)
      BY <2>1, <3>2 DEF LineInv, Known
    <3> QED
      BY <1>1, <3>1, <3>3, <3>4
  <2>3. spc \notin {"start", "wait", "input", "failed"}
    BY <2>2 DEF EndInv
  <2>4. spc \notin {"write", "release"}
    BY <1>12 DEF Disconnect, IInv, Counts, OneTurn
  <2>5. spc \in {"close", "return", "done"} /\ kpc' = "done"
    BY <1>1, <1>12, <2>3, <2>4 DEF TypeOK, Disconnect
  <2>6. UNCHANGED <<typed, user_input, spc>>
    BY <1>12 DEF Disconnect, serverVars
  <2> QED
    BY <2>5, <2>6 DEF EndInv
<1>13. ASSUME \/ Connect \/ OpenSemaphores \/ OpenFails \/ WaitPrint \/ ReadFile \/ ReadFileFails
              \/ Show \/ ReleaseServer
       PROVE  /\ kpc' # "done" /\ (kpc' = "failed" => spc' = "done")
              /\ UNCHANGED <<typed, user_input, spc>>
  BY <1>13 DEF Connect, OpenSemaphores, OpenFails, WaitPrint, ReadFile, ReadFileFails, Show,
     ReleaseServer, serverVars
<1>14. ASSUME kpc' # "done", kpc' = "failed" => spc' = "done", UNCHANGED <<typed, user_input, spc>>
       PROVE  EndInv'
  BY <1>14 DEF EndInv
<1>15. CASE UNCHANGED vars
  BY <1>3, <1>15 DEF vars, serverVars, clientVars
<1> QED
  BY <1>4, <1>5, <1>6, <1>7, <1>8, <1>9, <1>10, <1>11, <1>12, <1>13, <1>14, <1>15
     DEF Next, Server, Client

\* A line that is announced is in the pipe, or refused.
LEMMA WaitKept == IInv /\ KeptInv /\ WaitInv /\ [Next]_vars => WaitInv'
<1> SUFFICES ASSUME IInv, KeptInv, WaitInv, [Next]_vars PROVE WaitInv'
  OBVIOUS
<1> USE DEF WaitInv
<1>1. CASE StartServer
  BY <1>1 DEF StartServer, FirstCounts, clientVars, IInv, OneTurn, Counts
<1>2. CASE WaitEnter
  BY <1>2 DEF WaitEnter, clientVars
<1>3. CASE GetLine
  BY <1>3 DEF GetLine, clientVars, semaphores
<1>4. CASE WriteFileFails
  BY <1>4 DEF WriteFileFails, clientVars, semaphores
<1>5. CASE WriteFile
  <2>1. /\ spc = "write" /\ unsent # <<>> /\ spc' \in {"write", "release"}
        /\ UNCHANGED <<semaphores, pipe, kpc>>
    BY <1>5 DEF WriteFile, Put, clientVars
  <2>2. client_can_print = 0 /\ kpc # "read"
    BY <2>1 DEF IInv, Counts, OneTurn
  <2>3. data' # <<>>
    <3>1. /\ Len(unsent) \in Nat \ {0} /\ Len(data) \in Nat /\ PipeSize \in Nat
          /\ Len(data) < PipeSize /\ data \in Seq(Byte) /\ unsent \in Seq(Byte)
      BY <1>5, <2>1, SequenceTypes, EmptySeq DEF KeptInv, Kept, WriteFile, Put
    <3> DEFINE k == IF Len(unsent) < PipeSize - Len(data) THEN Len(unsent) ELSE PipeSize - Len(data)
    <3>2. k \in 0..Len(unsent) /\ k > 0
      BY <3>1
    <3>3. data' = data \o SubSeq(unsent, 1, k)
      BY <1>5 DEF WriteFile, Put
    <3> HIDE DEF k
    <3>4. PICK p : p = SubSeq(unsent, 1, k)
      OBVIOUS
    <3>5. p \in Seq(Byte) /\ Len(p) = k
      BY <3>1, <3>2, <3>4, SplitFacts
    <3>6. Len(data') = Len(data) + k
      BY <3>1, <3>3, <3>4, <3>5, ConcatProperties
    <3> QED
      BY <3>1, <3>2, <3>6, EmptySeq
  <2> QED
    BY <2>1, <2>3 DEF semaphores
<1>6. CASE WriteEmpty
  <2>1. /\ spc = "write" /\ spc' = "release" /\ UNCHANGED <<semaphores, pipe, kpc>>
        /\ data' = Append(data, Mark(Len(typed)))
    BY <1>6 DEF WriteEmpty, clientVars
  <2>2. PICK m : m = Mark(Len(typed))
    OBVIOUS
  <2>3. m \in Byte
    BY <2>2, SequenceTypes DEF Mark, Byte, KeptInv, Kept
  <2>4. Len(data') = Len(data) + 1 /\ Len(data) \in Nat
    BY <2>1, <2>2, <2>3, SequenceTypes, AppendProperties DEF KeptInv, Kept
  <2>5. data' # <<>>
    BY <2>4, EmptySeq
  <2> QED
    BY <2>1, <2>5 DEF semaphores
<1>7. CASE ReleaseClient
  BY <1>7 DEF ReleaseClient, clientVars
<1>8. CASE CloseServer \/ ExitServer
  BY <1>8 DEF CloseServer, ExitServer, clientVars, semaphores
<1>9. CASE Connect \/ OpenSemaphores \/ OpenFails
  BY <1>9 DEF Connect, OpenSemaphores, OpenFails, serverVars, semaphores
<1>10. CASE WaitPrint
  BY <1>10 DEF WaitPrint, serverVars
<1>11. CASE ReadFile \/ ReadFileFails
  <2>1. /\ kpc = "read" /\ kpc' = "print" /\ UNCHANGED <<semaphores, pipe, spc>>
    BY <1>11 DEF ReadFile, ReadFileFails, serverVars
  <2>2. spc # "release" /\ client_can_print = 0
    BY <2>1 DEF IInv, Counts, OneTurn
  <2> QED
    BY <2>1, <2>2 DEF semaphores
<1>12. CASE Disconnect
  BY <1>12 DEF Disconnect, serverVars, semaphores
<1>13. CASE Show
  BY <1>13 DEF Show, serverVars, semaphores
<1>14. CASE ReleaseServer
  BY <1>14 DEF ReleaseServer, serverVars
<1>15. CASE UNCHANGED vars
  BY <1>15 DEF vars, serverVars, clientVars, semaphores
<1> QED
  BY <1>1, <1>2, <1>3, <1>4, <1>5, <1>6, <1>7, <1>8, <1>9, <1>10, <1>11, <1>12, <1>13, <1>14, <1>15
     DEF Next, Server, Client

\* The turn is with somebody who can go on.
LEMMA SomeoneCanGo ==
  ASSUME IInv, KeptInv, EndInv, WaitInv PROVE NoStandstill
<1> SUFFICES ASSUME refused = {}, spc \notin {"input", "done", "failed"}, ~PipeFull,
                    ~ServerCanGo
             PROVE  ClientCanGo
  BY DEF NoStandstill
<1>1. /\ spc \in {"start", "failed", "wait", "input", "write", "release", "close", "return", "done"}
      /\ kpc \in {"start", "open", "failed", "wait", "read", "print", "release", "done"}
      /\ Len(data) \in Nat /\ PipeSize \in Nat
  BY SequenceTypes DEF KeptInv, Kept, TypeOK
<1>2. spc = "wait" /\ server_can_enter = 0
  BY <1>1 DEF ServerCanGo, PipeFull, IInv, Counts
<1>3. kpc \notin {"done", "failed"}
  BY <1>2 DEF EndInv
<1>4. client_can_print = 1 \/ kpc \in {"read", "print", "release"}
  BY <1>2, <1>3 DEF IInv, Counts, OneTurn
<1>5. kpc = "start" => pipe = "listening"
  BY <1>2 DEF WaitInv
<1>6. kpc = "read" => data # <<>>
  BY DEF WaitInv
<1> QED
  BY <1>1, <1>3, <1>4, <1>5, <1>6 DEF ClientCanGo

\* As long as no line is refused and none meets a full pipe, the two programs never wait for
\* each other: there is one turn, and who has it finds the pipe as it needs it.
THEOREM TurnUsed == Spec => []TurnInUse
<1>1. Init => LineInv /\ EndInv /\ WaitInv
  <2> SUFFICES ASSUME Init PROVE LineInv /\ EndInv /\ WaitInv
    OBVIOUS
  <2>1. Len(typed) = 0
    BY EmptySeq DEF Init
  <2> QED
    BY <2>1, KnownEmpty DEF Init, LineInv, EndInv, WaitInv
<1>2. IInv /\ KeptInv /\ EndInv /\ WaitInv => TurnInUse
  BY SomeoneCanGo DEF TurnInUse, IInv
<1> QED
  BY <1>1, <1>2, LineKept, EndKept, WaitKept, InitKept, StepKept, InitOneTurn, StepKeepsTurn, PTL
     DEF Spec

-----------------------------------------------------------------------------
(****************************************************************************)
(* With ordinary lines the two programs refine LineEcho.  The argument:     *)
(* whose turn it is tells where the line is that was typed last - printed,  *)
(* with nothing left in the pipe; on its way, and nothing else; or in the   *)
(* client's buffer.                                                         *)
(****************************************************************************)

\* Every line is printed and nothing is on its way.
Answered == Len(shown) = Len(typed) /\ data = <<>>

\* Every line but the last is printed.
Pending == Len(typed) = Len(shown) + 1

\* What the pipe holds when the line typed last is in it.
Announced ==
  IF typed[Len(typed)].size = 0 THEN <<Mark(Len(typed))>> ELSE Text(Len(typed))

\* Where the last line is, by the two programs and the semaphores between them.
ServerNext == server_can_enter = 1 \/ spc \in {"start", "input"} \/ kpc = "release"
ClientNext == client_can_print = 1 \/ kpc = "read" \/ spc = "release"
Writing == spc = "write"
Printing == kpc = "print"

InStep ==
  /\ Len(shown) <= Len(typed)
  /\ \A i \in 1..Len(shown) : shown[i] = Text(i)
  /\ ServerNext => Answered
  /\ Writing => /\ Pending /\ data \o unsent = Text(Len(typed))
                /\ typed[Len(typed)].size # 0 => unsent # <<>>
  /\ ClientNext => Pending /\ data = Announced
  /\ Printing => Pending /\ buf = Text(Len(typed)) /\ data = <<>>

EchoInv == Ordinary => InStep

-----------------------------------------------------------------------------

\* A step after which the last line is where it was.
LEMMA EchoFrame ==
  ASSUME EchoInv, UNCHANGED <<typed, refused, shown, data, unsent, buf>>,
         ServerNext' => ServerNext, Writing' => Writing,
         ClientNext' => ClientNext, Printing' => Printing
  PROVE  EchoInv'
BY DEF EchoInv, Ordinary, InStep, Answered, Pending, Announced, Mark, Text

\* The steps of this kind.
LEMMA EchoFrames ==
  ASSUME IInv, EchoInv,
         \/ StartServer \/ WaitEnter \/ ReleaseClient \/ CloseServer \/ ExitServer
         \/ Connect \/ OpenSemaphores \/ OpenFails \/ WaitPrint \/ Disconnect \/ ReleaseServer
  PROVE  EchoInv'
<1> USE DEF ServerNext, Writing, ClientNext, Printing, clientVars, serverVars, semaphores
<1>1. CASE StartServer
  BY <1>1, EchoFrame DEF StartServer, FirstCounts
<1>2. CASE WaitEnter
  BY <1>2, EchoFrame DEF WaitEnter
<1>3. CASE ReleaseClient
  BY <1>3, EchoFrame DEF ReleaseClient
<1>4. CASE CloseServer \/ ExitServer
  BY <1>4, EchoFrame DEF CloseServer, ExitServer
<1>5. CASE Connect \/ OpenSemaphores \/ OpenFails
  BY <1>5, EchoFrame DEF Connect, OpenSemaphores, OpenFails
<1>6. CASE WaitPrint
  BY <1>6, EchoFrame DEF WaitPrint
<1>7. CASE Disconnect
  BY <1>7, EchoFrame DEF Disconnect
<1>8. CASE ReleaseServer
  BY <1>8, EchoFrame DEF ReleaseServer
<1> QED
  BY <1>1, <1>2, <1>3, <1>4, <1>5, <1>6, <1>7, <1>8

\* While the server writes, the client waits.
LEMMA WriterAlone ==
  ASSUME IInv, spc = "write"
  PROVE  server_can_enter = 0 /\ client_can_print = 0 /\ kpc \notin {"read", "print", "release"}
BY DEF IInv, Counts, OneTurn

\* And while the client reads or prints, the server does.
LEMMA ReaderAlone ==
  ASSUME IInv, kpc \in {"read", "print"}
  PROVE  /\ server_can_enter = 0 /\ client_can_print = 0
         /\ spc \notin {"start", "input", "write", "release"}
BY DEF IInv, Counts, OneTurn

\* A new line is taken when the one before it is printed and the pipe empty.
LEMMA GetLineEcho ==
  ASSUME IInv, KeptInv, EchoInv, GetLine
  PROVE  EchoInv' /\ (Ordinary' => Ordinary /\ Answered /\ InStep)
<1> SUFFICES ASSUME Ordinary' PROVE InStep' /\ Ordinary /\ Answered /\ InStep
  BY DEF EchoInv
<1>1. PICK L : L = Len(typed)
  OBVIOUS
<1>2. /\ L \in Nat /\ typed \in Seq(TextLine) /\ DOMAIN typed = 1..L /\ Len(shown) \in Nat
      /\ typed' \in Seq(TextLine) /\ unsent' \in Seq(Byte) /\ TypeOK'
  BY <1>1, GetLineKept, SequenceTypes DEF KeptInv, Kept, TypeOK
<1>3. user_input' \in TextLine
  BY <1>2 DEF TypeOK
<1>4. /\ Len(typed') = L + 1 /\ DOMAIN typed' = 1..(L + 1)
      /\ typed'[L + 1] = user_input' /\ \A i \in 1..L : typed'[i] = typed[i]
  BY <1>1, <1>2, <1>3, AppendProperties, LenProperties DEF GetLine
<1>5. Ordinary
  <2>1. \A i \in 1..L : i \in 1..(L + 1)
    BY <1>2
  <2> QED
    BY <1>2, <1>4, <2>1 DEF Ordinary, GetLine
<1>6. InStep /\ Answered
  BY <1>5 DEF EchoInv, InStep, ServerNext, GetLine
<1>7. Len(shown) = L /\ data = <<>>
  BY <1>1, <1>6 DEF Answered
<1>8. /\ spc' = "write" /\ shown' = shown /\ data' = <<>>
      /\ UNCHANGED <<server_can_enter, client_can_print, kpc>>
  BY <1>7 DEF GetLine, semaphores, clientVars
<1>9. \A i \in 1..L : shown'[i] = Text(i)'
  <2>1. \A i \in 1..L : Text(i)' = Text(i)
    BY <1>4 DEF Text
  <2> QED
    BY <1>6, <1>7, <1>8, <2>1 DEF InStep
<1>10. unsent' = Text(L + 1)'
  <2>1. Len(typed') = L + 1 /\ typed'[L + 1] = user_input'
    BY <1>4
  <2> QED
    BY <2>1 DEF GetLine, Text
<1>11. data' \o unsent' = Text(L + 1)'
  <2>1. PICK u : u = unsent'
    OBVIOUS
  <2>2. <<>> \o u = u
    BY <1>2, <2>1, ConcatEmptySeq
  <2> QED
    BY <1>8, <1>10, <2>1, <2>2
<1>12. user_input'.size # 0 => unsent' # <<>>
  <2>1. Len(unsent') = user_input'.size
    <3>1. user_input'.size \in Nat
      BY <1>3 DEF TextLine
    <3>2. DOMAIN unsent' = 1..user_input'.size
      BY DEF GetLine
    <3> QED
      BY <1>2, <3>1, <3>2, LenProperties
  <2> QED
    BY <2>1, EmptySeq
<1>13. ~ServerNext' /\ ~ClientNext' /\ ~Printing'
  BY <1>8 DEF IInv, Counts, OneTurn, GetLine, ServerNext, ClientNext, Printing
<1>14. InStep'
  <2>1. Text(Len(typed))' = Text(L + 1)' /\ typed'[Len(typed')].size = user_input'.size
    BY <1>4 DEF Text
  <2>2. Len(shown') = L /\ Len(typed') = L + 1 /\ Len(shown') <= Len(typed')
    BY <1>2, <1>4, <1>7, <1>8
  <2> QED
    BY <1>9, <1>11, <1>12, <1>13, <2>1, <2>2 DEF InStep, Pending
<1> QED
  BY <1>5, <1>6, <1>14

\* After a refused line nothing is promised, and the client never finds the pipe closed.
LEMMA FailureEcho ==
  ASSUME IInv, KeptInv, EchoInv, WriteFileFails \/ ReadFileFails
  PROVE  EchoInv' /\ ~Ordinary'
<1> SUFFICES ~Ordinary'
  BY DEF EchoInv
<1>1. CASE WriteFileFails
  BY <1>1 DEF WriteFileFails, Ordinary
<1>2. CASE ReadFileFails
  <2> SUFFICES ASSUME Ordinary PROVE FALSE
    BY <1>2 DEF Ordinary, ReadFileFails
  <2>1. Pending /\ data = Announced /\ data = <<>>
    BY <1>2 DEF EchoInv, InStep, ClientNext, ReadFileFails
  <2>2. PICK i \in 1..Len(typed) : i = Len(typed)
    <3>1. Len(typed) \in Nat /\ Len(shown) \in Nat
      BY SequenceTypes DEF KeptInv, Kept
    <3> QED
      BY <2>1, <3>1 DEF Pending
  <2>3. typed[i].size \in Nat /\ Text(i) \in Seq(Byte) /\ Len(Text(i)) = typed[i].size
    BY TextFacts DEF KeptInv, Kept
  <2>4. typed[i].size # 0
    <3>1. <<Mark(i)>> # <<>>
      OBVIOUS
    <3> QED
      BY <2>1, <2>2, <3>1 DEF Announced
  <2>5. Text(i) = <<>>
    BY <2>1, <2>2, <2>4 DEF Announced
  <2> QED
    BY <2>3, <2>4, <2>5, EmptySeq
<1> QED
  BY <1>1, <1>2

\* A write moves bytes of the line into the pipe; with the last of them it is announced.
LEMMA WriteFileEcho ==
  ASSUME IInv, KeptInv, EchoInv, WriteFile
  PROVE  EchoInv'
<1> SUFFICES ASSUME Ordinary PROVE InStep'
  BY DEF EchoInv, Ordinary, WriteFile, Put
<1>1. PICK L : L = Len(typed)
  OBVIOUS
<1> DEFINE room == PipeSize - Len(data)
           k == IF Len(unsent) < room THEN Len(unsent) ELSE room
           put == SubSeq(unsent, 1, k)
           rest == SubSeq(unsent, k + 1, Len(unsent))
<1>2. /\ data \in Seq(Byte) /\ unsent \in Seq(Byte) /\ Len(unsent) \in Nat /\ unsent # <<>>
      /\ Len(data) \in Nat /\ PipeSize \in Nat /\ Len(data) < PipeSize /\ spc = "write"
      /\ Len(typed) \in Nat /\ Len(shown) \in Nat /\ TypeOK
  BY SequenceTypes DEF KeptInv, Kept, WriteFile, Put
<1>3. InStep /\ Pending /\ data \o unsent = Text(L)
  BY <1>1, <1>2 DEF EchoInv, InStep, Writing
<1>4. /\ data' = data \o put /\ unsent' = rest
      /\ spc' = IF rest = <<>> THEN "release" ELSE "write"
      /\ UNCHANGED <<server_can_enter, client_can_print, kpc, buf, typed, shown>>
  BY DEF WriteFile, Put, clientVars, semaphores
<1>5. put \in Seq(Byte) /\ rest \in Seq(Byte) /\ put \o rest = unsent
  <2>1. k \in 0..Len(unsent)
    BY <1>2
  <2> HIDE DEF k
  <2> QED
    BY <1>2, <2>1, SplitFacts
<1> HIDE DEF put, rest
<1>6. data' \in Seq(Byte) /\ data' \o unsent' = Text(L)
  <2>1. PICK d, p, r : d = data /\ p = put /\ r = rest
    OBVIOUS
  <2>2. d \in Seq(Byte) /\ p \in Seq(Byte) /\ r \in Seq(Byte)
    BY <1>2, <1>5, <2>1
  <2>3. (d \o p) \o r = d \o (p \o r) /\ d \o p \in Seq(Byte)
    BY ONLY <2>2, Regrouped, ConcatProperties
  <2> QED
    BY ONLY <1>3, <1>4, <1>5, <2>1, <2>3
<1>7. \A i \in 1..Len(shown') : shown'[i] = Text(i)'
  BY <1>3, <1>4 DEF InStep, Text
<1>8. Text(Len(typed))' = Text(L) /\ Announced' = Announced
  BY <1>1, <1>4 DEF Text, Announced, Mark
<1>9. Len(shown') <= Len(typed') /\ Pending'
  BY <1>2, <1>3, <1>4 DEF Pending
<1>10. ~ServerNext' /\ ~Printing' /\ (ClientNext' => rest = <<>>) /\ (Writing' => rest # <<>>)
  BY <1>2, <1>4, WriterAlone DEF ServerNext, ClientNext, Printing, Writing
<1>11. rest = <<>> => data' = Announced
  <2> SUFFICES ASSUME rest = <<>> PROVE data' = Announced
    OBVIOUS
  <2>1. data' = Text(L)
    <3>1. PICK d : d = data'
      OBVIOUS
    <3>2. d \in Seq(Byte) /\ d \o <<>> = Text(L)
      BY <1>4, <1>6, <3>1
    <3>3. d \o <<>> = d
      BY ONLY <3>2, ConcatEmptySeq
    <3> QED
      BY <3>1, <3>2, <3>3
  <2>2. typed[L].size # 0
    <3>1. L \in 1..Len(typed)
      BY <1>1, <1>2, <1>3 DEF Pending
    <3>2. Len(Text(L)) = typed[L].size
      BY <1>2, <3>1, TextFacts
    <3>3. Len(data \o unsent) = Len(data) + Len(unsent) /\ Len(unsent) # 0
      BY <1>2, ConcatProperties, EmptySeq
    <3> QED
      BY <1>2, <1>3, <3>2, <3>3
  <2> QED
    BY <1>1, <2>1, <2>2 DEF Announced
<1> QED
  BY <1>4, <1>6, <1>7, <1>8, <1>9, <1>10, <1>11 DEF InStep

\* An empty line is announced by its mark.
LEMMA WriteEmptyEcho ==
  ASSUME IInv, KeptInv, EchoInv, WriteEmpty
  PROVE  EchoInv'
<1> SUFFICES ASSUME Ordinary PROVE InStep'
  BY DEF EchoInv, Ordinary, WriteEmpty
<1>1. PICK L : L = Len(typed)
  OBVIOUS
<1>2. /\ data \in Seq(Byte) /\ unsent = <<>> /\ spc = "write" /\ TypeOK
      /\ Len(typed) \in Nat /\ Len(shown) \in Nat
  BY SequenceTypes DEF KeptInv, Kept, WriteEmpty
<1>3. InStep /\ Pending /\ data \o unsent = Text(L) /\ typed[L].size = 0
  BY <1>1, <1>2 DEF EchoInv, InStep, Writing
<1>4. /\ data' = Append(data, Mark(L)) /\ spc' = "release"
      /\ UNCHANGED <<server_can_enter, client_can_print, kpc, buf, typed, shown>>
  BY <1>1 DEF WriteEmpty, clientVars, semaphores
<1>5. data = <<>>
  <2>1. L \in 1..Len(typed)
    BY <1>1, <1>2, <1>3 DEF Pending
  <2>2. Text(L) \in Seq(Byte) /\ Len(Text(L)) = 0
    BY <1>2, <1>3, <2>1, TextFacts
  <2>3. data \o <<>> = data
    BY <1>2, ConcatEmptySeq
  <2> QED
    BY <1>2, <1>3, <2>2, <2>3, EmptySeq
<1>6. data' = Announced'
  BY <1>1, <1>3, <1>4, <1>5 DEF Announced, Mark
<1>7. \A i \in 1..Len(shown') : shown'[i] = Text(i)'
  BY <1>3, <1>4 DEF InStep, Text
<1>8. Len(shown') <= Len(typed') /\ Pending'
  BY <1>2, <1>3, <1>4 DEF Pending
<1>9. ~ServerNext' /\ ~Printing' /\ ~Writing'
  BY <1>2, <1>4, WriterAlone DEF ServerNext, Printing, Writing
<1> QED
  BY <1>6, <1>7, <1>8, <1>9 DEF InStep

\* The client reads the whole line, which fits into the buffer, or the mark of an empty one.
LEMMA ReadFileEcho ==
  ASSUME IInv, KeptInv, EchoInv, ReadFile
  PROVE  EchoInv'
<1> SUFFICES ASSUME Ordinary PROVE InStep'
  BY DEF EchoInv, Ordinary, ReadFile
<1>1. /\ data \in Seq(Byte) /\ Len(data) \in Nat /\ DOMAIN data = 1..Len(data)
      /\ BUFSIZ \in Nat \ {0} /\ data # <<>> /\ kpc = "read" /\ TypeOK
      /\ Len(typed) \in Nat /\ Len(shown) \in Nat
  BY SequenceTypes DEF KeptInv, Kept, ReadFile
<1>2. InStep /\ Pending /\ data = Announced
  BY <1>1 DEF EchoInv, InStep, ClientNext
<1>3. PICK L \in 1..Len(typed) : L = Len(typed)
  BY <1>1, <1>2 DEF Pending
<1>4. /\ Text(L) \in Seq(Byte) /\ Len(Text(L)) = typed[L].size /\ typed[L].size \in Nat
      /\ \A p \in 1..typed[L].size : Text(L)[p] = [line |-> L, pos |-> p]
  BY <1>1, TextFacts
<1>5. typed[L].size < BUFSIZ
  <2>1. L \in DOMAIN typed
    BY SequenceTypes DEF KeptInv, Kept
  <2> QED
    BY <2>1 DEF Ordinary
<1>6. /\ buf' = SubSeq(data, 1, ReadSize)
      /\ data' = SubSeq(data, IF FirstMark = 1 THEN 2 ELSE ReadSize + 1, Len(data))
      /\ kpc' = "print"
      /\ UNCHANGED <<server_can_enter, client_can_print, spc, typed, shown>>
  BY DEF ReadFile, serverVars, semaphores
<1>7. ASSUME typed[L].size = 0 PROVE buf' = Text(L) /\ data' = <<>>
  <2>1. data = <<Mark(L)>>
    BY <1>2, <1>3, <1>7 DEF Announced
  <2>2. Len(data) = 1 /\ data[1].pos = 0
    BY <2>1 DEF Mark
  <2>3. FirstMark = 1 /\ ReadSize = 0
    BY <1>1, <2>2, ReadSizeFacts
  <2>4. buf' = <<>> /\ data' = <<>>
    BY <1>6, <2>2, <2>3, SubSeqEmpty
  <2>5. Text(L) = <<>>
    BY <1>4, <1>7, EmptySeq
  <2> QED
    BY <2>4, <2>5
<1>8. ASSUME typed[L].size # 0 PROVE buf' = Text(L) /\ data' = <<>>
  <2>1. data = Text(L)
    BY <1>2, <1>3, <1>8 DEF Announced
  <2>2. Len(data) = typed[L].size /\ \A i \in DOMAIN data : data[i].pos # 0
    <3>1. PICK size \in Nat : size = typed[L].size
      BY <1>4
    <3>2. Len(data) = size /\ \A p \in 1..size : data[p] = [line |-> L, pos |-> p]
      BY <1>4, <2>1, <3>1
    <3>3. \A p \in 1..size : data[p].pos = p /\ p # 0
      BY <3>2
    <3> QED
      BY <1>1, <3>1, <3>2, <3>3
  <2>3. FirstMark = Len(data) + 1
    BY <2>2 DEF FirstMark
  <2>4. ReadSize = Len(data)
    BY <1>1, <1>5, <2>2, <2>3 DEF ReadSize
  <2>5. FirstMark # 1
    BY <1>4, <1>8, <2>2, <2>3
  <2>6. buf' = SubSeq(data, 1, Len(data)) /\ data' = SubSeq(data, Len(data) + 1, Len(data))
    BY <1>6, <2>4, <2>5
  <2>7. buf' = data
    BY <1>1, <2>6, SubSeqFull
  <2>8. data' = <<>>
    BY <1>1, <2>6, SubSeqEmpty
  <2> QED
    BY <2>1, <2>7, <2>8
<1>9. buf' = Text(L) /\ data' = <<>>
  BY <1>7, <1>8
<1>10. \A i \in 1..Len(shown') : shown'[i] = Text(i)'
  BY <1>2, <1>6 DEF InStep, Text
<1>11. Len(shown') <= Len(typed') /\ Pending' /\ Text(Len(typed))' = Text(L)
  BY <1>1, <1>2, <1>3, <1>6 DEF Pending, Text
<1>12. ~ServerNext' /\ ~Writing' /\ ~ClientNext'
  BY <1>1, <1>6, ReaderAlone DEF ServerNext, Writing, ClientNext
<1> QED
  BY <1>9, <1>10, <1>11, <1>12 DEF InStep

\* The line is printed as it was typed.
LEMMA ShowEcho ==
  ASSUME IInv, KeptInv, EchoInv, Show
  PROVE  /\ EchoInv'
         /\ Ordinary => /\ Len(shown) < Len(typed)
                        /\ shown' = Append(shown, Text(Len(shown) + 1))
<1> SUFFICES ASSUME Ordinary
             PROVE  /\ InStep' /\ Len(shown) < Len(typed)
                    /\ shown' = Append(shown, Text(Len(shown) + 1))
  BY DEF EchoInv, Ordinary, Show
<1>1. /\ shown \in Seq(Seq(Byte)) /\ Len(shown) \in Nat /\ Len(typed) \in Nat
      /\ DOMAIN typed = 1..Len(typed) /\ kpc = "print" /\ TypeOK
  BY SequenceTypes DEF KeptInv, Kept, Show
<1>2. InStep /\ Pending /\ buf = Text(Len(typed)) /\ data = <<>>
  BY <1>1 DEF EchoInv, InStep, Printing
<1>3. PICK L \in 1..Len(typed) : L = Len(typed) /\ L = Len(shown) + 1
  BY <1>1, <1>2 DEF Pending
<1>4. /\ Text(L) \in Seq(Byte) /\ Len(Text(L)) = typed[L].size /\ typed[L].size \in Nat
      /\ typed[L].size < BUFSIZ /\ BUFSIZ \in Nat
  BY <1>1, TextFacts, SizesAssumption DEF Ordinary
<1>5. CString(buf) = Text(L)
  BY <1>2, <1>3, <1>4 DEF CString
<1>6. /\ shown' = Append(shown, Text(L)) /\ kpc' = "release"
      /\ UNCHANGED <<server_can_enter, client_can_print, spc, typed, data>>
  BY <1>5 DEF Show, serverVars, semaphores
<1>7. /\ Len(shown') = Len(shown) + 1 /\ shown'[Len(shown) + 1] = Text(L)
      /\ \A i \in 1..Len(shown) : shown'[i] = shown[i]
  BY <1>1, <1>4, <1>6, AppendProperties
<1>8. \A i \in 1..Len(shown') : shown'[i] = Text(i)'
  <2>1. \A i \in 1..Len(shown') : i \in 1..Len(shown) \/ i = L
    BY <1>1, <1>3, <1>7
  <2>2. \A i \in 1..Len(shown) : shown'[i] = Text(i)
    BY <1>2, <1>7 DEF InStep
  <2>3. \A i : Text(i)' = Text(i)
    BY <1>6 DEF Text
  <2> QED
    BY <1>3, <1>7, <2>1, <2>2, <2>3
<1>9. Answered' /\ Len(shown') <= Len(typed')
  BY <1>1, <1>2, <1>3, <1>6, <1>7 DEF Answered
<1>10. ~Writing' /\ ~ClientNext' /\ ~Printing'
  BY <1>1, <1>6, ReaderAlone DEF Writing, ClientNext, Printing
<1>11. InStep'
  BY <1>8, <1>9, <1>10 DEF InStep
<1> QED
  BY <1>1, <1>3, <1>6, <1>11

\* Every step keeps the last line where the turn tells it is.
LEMMA EchoKept == IInv /\ KeptInv /\ EchoInv /\ [Next]_vars => EchoInv'
<1> SUFFICES ASSUME IInv, KeptInv, EchoInv, [Next]_vars PROVE EchoInv'
  OBVIOUS
<1>1. ASSUME UNCHANGED vars PROVE EchoInv'
  BY <1>1, EchoFrame
     DEF vars, semaphores, serverVars, clientVars, ServerNext, Writing, ClientNext, Printing
<1> QED
  BY <1>1, EchoFrames, GetLineEcho, FailureEcho, WriteFileEcho, WriteEmptyEcho, ReadFileEcho,
     ShowEcho DEF Next, Server, Client

-----------------------------------------------------------------------------

\* The lines as LineEcho sees them.
Texts == [i \in DOMAIN typed |-> Text(i)]

\* They are sequences of bytes, one for each line.
LEMMA TextsFacts ==
  ASSUME TypeOK
  PROVE  /\ Texts \in Seq(Seq(Byte)) /\ Len(Texts) = Len(typed)
         /\ \A i \in 1..Len(typed) : Texts[i] = Text(i)
<1>1. DOMAIN typed = 1..Len(typed) /\ Len(typed) \in Nat
  BY SequenceTypes
<1>2. PICK n : n = Len(typed)
  OBVIOUS
<1>3. n \in Nat /\ Texts = [i \in 1..n |-> Text(i)] /\ \A i \in 1..n : Text(i) \in Seq(Byte)
  BY <1>1, <1>2, TextFacts DEF Texts
<1>4. Texts \in Seq(Seq(Byte))
  BY <1>3, IsASeq
<1>5. DOMAIN Texts = 1..n /\ \A i \in 1..n : Texts[i] = Text(i)
  BY <1>3
<1>6. Len(Texts) = n
  BY <1>3, <1>4, <1>5, LenProperties
<1> QED
  BY <1>2, <1>4, <1>5, <1>6

\* A step of the program is one of LineEcho, or none, while the lines are ordinary.
LEMMA StepEchoes ==
  ASSUME IInv, KeptInv, EchoInv, [Next]_vars, Ordinary'
  PROVE  [Abs!Next]_(Abs!vars)
<1>1. PICK L : L = Len(typed)
  OBVIOUS
<1>2. /\ typed \in Seq(TextLine) /\ L \in Nat /\ DOMAIN typed = 1..L
      /\ shown \in Seq(Seq(Byte)) /\ Len(shown) \in Nat /\ TypeOK
  BY <1>1, SequenceTypes DEF KeptInv, Kept
<1>3. /\ Texts \in Seq(Seq(Byte)) /\ Len(Texts) = L
      /\ \A i \in 1..L : Texts[i] = Text(i)
  BY <1>1, <1>2, TextsFacts
<1>4. UNCHANGED <<typed, shown, Ending>> => [Abs!Next]_(Abs!vars)
  BY DEF Abs!vars, Text
<1>5. UNCHANGED <<typed, shown>> /\ Ending' => [Abs!Next]_(Abs!vars)
  BY DEF Abs!vars, Text, Abs!Next, Abs!End
<1>6. CASE UNCHANGED vars
  BY <1>4, <1>6 DEF vars, serverVars, Ending
<1>7. CASE StartServer \/ WaitEnter \/ WriteFileFails \/ WriteFile \/ WriteEmpty
  <2>1. UNCHANGED <<typed, shown>> /\ ~Ending /\ ~Ending'
    BY <1>7
       DEF StartServer, WaitEnter, WriteFileFails, WriteFile, Put, WriteEmpty, Ending
  <2>2. Ending' = Ending
    BY <2>1 DEF Ending
  <2> QED
    BY <1>4, <2>1, <2>2
<1>8. CASE ReleaseClient \/ CloseServer \/ ExitServer
  <2>1. UNCHANGED <<typed, shown>>
    BY <1>8 DEF ReleaseClient, CloseServer, ExitServer
  <2>2. Ending' \/ (~Ending /\ ~Ending')
    BY <1>8 DEF ReleaseClient, CloseServer, ExitServer, Ending
  <2>3. ~Ending /\ ~Ending' => Ending' = Ending
    BY DEF Ending
  <2> QED
    BY <1>4, <1>5, <2>1, <2>2, <2>3
<1>9. CASE \/ Connect \/ OpenSemaphores \/ OpenFails \/ WaitPrint \/ ReadFile \/ ReadFileFails
           \/ Disconnect \/ ReleaseServer
  BY <1>4, <1>9
     DEF Connect, OpenSemaphores, OpenFails, WaitPrint, ReadFile, ReadFileFails, Disconnect,
         ReleaseServer, serverVars, Ending
<1>10. CASE GetLine
  <2>1. Answered /\ InStep
    BY <1>10, GetLineEcho
  <2>2. shown = Texts
    <3>1. Len(shown) = L /\ \A i \in 1..L : shown[i] = Texts[i]
      BY <1>1, <1>3, <2>1 DEF Answered, InStep
    <3> QED
      BY <1>2, <1>3, <3>1, SeqEqual
  <2>3. /\ TypeOK' /\ user_input' \in TextLine /\ typed' = Append(typed, user_input')
        /\ shown' = shown
    BY <1>10, GetLineKept DEF GetLine, KeptInv, Kept, TypeOK
  <2>4. Len(typed') = L + 1 /\ \A i \in 1..L : typed'[i] = typed[i]
    BY <1>1, <1>2, <2>3, AppendProperties
  <2>5. /\ Texts' \in Seq(Seq(Byte)) /\ Len(Texts') = L + 1
        /\ \A i \in 1..(L + 1) : Texts'[i] = Text(i)'
    <3>1. (TypeOK => /\ Texts \in Seq(Seq(Byte)) /\ Len(Texts) = Len(typed)
                     /\ \A i \in 1..Len(typed) : Texts[i] = Text(i))'
      BY TextsFacts, PTL
    <3> QED
      BY <2>3, <2>4, <3>1
  <2>6. \A i \in 1..L : Texts'[i] = Texts[i]
    <3>1. \A i \in 1..L : i \in 1..(L + 1) /\ Text(i)' = Text(i)
      BY <1>2, <2>4 DEF Text
    <3> QED
      BY <1>3, <2>5, <3>1
  <2>7. SubSeq(Texts', 1, L) = Texts
    <3>1. PICK s : s = Texts'
      OBVIOUS
    <3>2. s \in Seq(Seq(Byte)) /\ L \in 0..Len(s) /\ \A i \in 1..L : s[i] = Texts[i]
      BY <1>2, <2>5, <2>6, <3>1
    <3>3. /\ SubSeq(s, 1, L) \in Seq(Seq(Byte)) /\ Len(SubSeq(s, 1, L)) = L
          /\ \A i \in 1..L : SubSeq(s, 1, L)[i] = s[i]
      BY <3>2, SplitFacts
    <3>4. SubSeq(s, 1, L) = Texts
      BY <1>2, <1>3, <3>2, <3>3, SeqEqual
    <3> QED
      BY <3>1, <3>4
  <2>8. ~Ending /\ ~Ending' /\ Ending' = Ending
    BY <1>10 DEF GetLine, Ending
  <2>9. Len(Texts') = Len(Texts) + 1 /\ SubSeq(Texts', 1, Len(Texts)) = Texts
    BY <1>3, <2>5, <2>7
  <2>10. Abs!Enter
    BY <2>2, <2>3, <2>8, <2>9 DEF Abs!Enter, Texts
  <2> QED
    BY <2>10 DEF Abs!Next
<1>11. CASE Show
  <2>1. UNCHANGED <<typed, refused, spc>> /\ Ordinary
    BY <1>11 DEF Show, serverVars, Ordinary
  <2>2. Len(shown) < L /\ shown' = Append(shown, Text(Len(shown) + 1))
    BY <1>1, <1>11, <2>1, ShowEcho
  <2>3. Len(shown) < Len(Texts) /\ shown' = Append(shown, Texts[Len(shown) + 1])
    BY <1>2, <1>3, <2>2
  <2>4. Texts' = Texts /\ Ending' = Ending
    BY <2>1 DEF Texts, Text, Ending
  <2>5. Abs!Show
    BY <2>3, <2>4 DEF Abs!Show, Texts
  <2> QED
    BY <2>5 DEF Abs!Next
<1> QED
  BY <1>6, <1>7, <1>8, <1>9, <1>10, <1>11 DEF Next, Server, Client

\* While every line is shorter than the buffer and finds a client, the two programs keep the
\* promise of the laboratory work: initial states map to initial states of LineEcho, and every
\* step to one of its steps or to none.
THEOREM LinesEchoed == Spec => Echoes
<1>1. Init => EchoInv
  <2> SUFFICES ASSUME Init PROVE EchoInv
    OBVIOUS
  <2>1. Len(shown) = 0 /\ Len(typed) = 0
    BY EmptySeq DEF Init
  <2> QED
    BY <2>1 DEF Init, EchoInv, InStep, Answered, Writing, ClientNext, Printing
<1>2. Init => Abs!Init
  BY DEF Init, Abs!Init, Ending
<1>3. IInv /\ KeptInv /\ EchoInv /\ [Next]_vars => [Ordinary' => [Abs!Next]_(Abs!vars)]_vars
  BY StepEchoes
<1> QED
  BY <1>1, <1>2, <1>3, InitKept, StepKept, EchoKept, InitOneTurn, StepKeepsTurn, PTL
     DEF Spec, Echoes
-----------------------------------------------------------------------------
(****************************************************************************)
(* The shell of Lab_7 joins its arguments by FlattenSeq as well.  The       *)
(* argument: what is still in the stream are the last of the words, and the *)
(* command has become help exactly when the stream has failed or the first  *)
(* word names none.                                                         *)
(****************************************************************************)

Words == FlattenSeq(argv)
Command == IF Words = <<>> THEN "help" ELSE to_input_type(Words[1])
Needed == Parameters[Command]

\* The call that the words lead to, wherever the arguments begin and end.
Outcome ==
  IF Len(Words) <= Needed THEN <<"help", <<>>>> ELSE <<Command, SubSeq(Words, 2, Needed + 1)>>
CallMade == pc = "done" => called = <<Outcome>>

\* What has been read, at each control point.
ReadInv ==
  /\ argv \in Argvs
  /\ pc \in {"join", "type", "first", "second", "call", "done"}
  /\ pc = "join" => ~fail
  /\ pc = "type" => stream = Words /\ ~fail
  /\ pc \in {"join", "type", "first"} => args = <<>>
  /\ pc # "done" => called = <<>>
  /\ pc = "first" =>
       /\ type = Command /\ (fail <=> Words = <<>>)
       /\ Words # <<>> => stream = Tail(Words)
  /\ pc = "second" =>
       /\ Command \in TwoArguments
       /\ IF Len(Words) > 1 THEN /\ type = Command /\ ~fail /\ args = <<Words[2]>>
                                 /\ stream = Tail(Tail(Words))
                            ELSE type = "help" /\ fail
  /\ pc = "call" =>
       IF Len(Words) <= Needed THEN type = "help"
                               ELSE type = Command /\ args = SubSeq(Words, 2, Needed + 1)
  /\ CallMade

\* The words of the arguments, the command they name and how many more it needs.
LEMMA CommandFacts ==
  ASSUME argv \in Argvs
  PROVE  /\ Words \in Seq(Word) /\ Len(Words) \in Nat
         /\ Command \in user_input_type
         /\ Words = <<>> => Command = "help"
         /\ Command \in {"help", "dir"} => Needed = 0
         /\ Command \in OneArgument => Needed = 1
         /\ Command \in TwoArguments => Needed = 2
         /\ \/ Command \in {"help", "dir"} \/ Command \in OneArgument
            \/ Command \in TwoArguments
<1>1. Words \in Seq(Word) /\ Len(Words) \in Nat
  BY ArgvsAssumption, FlattenType, LenProperties DEF Words
<1>2. \A w : to_input_type(w) \in user_input_type
  BY DEF to_input_type, commands, user_input_type
<1>3. Command \in user_input_type
  BY <1>2 DEF Command, user_input_type
<1> QED
  BY <1>1, <1>3 DEF Command, Needed, Parameters, user_input_type, OneArgument,
     TwoArguments

\* The first words of a sequence, one by one.
LEMMA FirstWords ==
  ASSUME NEW S, NEW s \in Seq(S), s # <<>>
  PROVE  /\ Len(s) \in Nat \ {0} /\ Head(s) = s[1]
         /\ Tail(s) \in Seq(S) /\ (Tail(s) = <<>> <=> Len(s) = 1)
         /\ Len(s) > 1 => Head(Tail(s)) = s[2] /\ (Tail(Tail(s)) = <<>> <=> Len(s) = 2)
         /\ Len(s) > 2 => Head(Tail(Tail(s))) = s[3]
<1>1. Len(s) \in Nat \ {0} /\ Head(s) = s[1]
  BY EmptySeq, LenProperties
<1>2. /\ Tail(s) \in Seq(S) /\ Len(Tail(s)) = Len(s) - 1
      /\ \A i \in 1..(Len(s) - 1) : Tail(s)[i] = s[i + 1]
  BY <1>1, HeadTailProperties
<1>3. PICK t : t = Tail(s)
  OBVIOUS
<1>4. t \in Seq(S) /\ Len(t) = Len(s) - 1 /\ \A i \in 1..(Len(s) - 1) : t[i] = s[i + 1]
  BY <1>2, <1>3
<1>5. t = <<>> <=> Len(s) = 1
  BY <1>1, <1>4, EmptySeq
<1>6. ASSUME Len(s) > 1
      PROVE  /\ Head(t) = s[2] /\ Tail(t) \in Seq(S) /\ Len(Tail(t)) = Len(s) - 2
             /\ \A i \in 1..(Len(s) - 2) : Tail(t)[i] = t[i + 1]
  BY <1>1, <1>4, <1>5, <1>6, HeadTailProperties
<1>7. ASSUME Len(s) > 1 PROVE Tail(t) = <<>> <=> Len(s) = 2
  <2>1. PICK u : u = Tail(t)
    OBVIOUS
  <2>2. u \in Seq(S) /\ Len(u) = Len(s) - 2
    BY <1>6, <1>7, <2>1
  <2>3. u = <<>> <=> Len(u) = 0
    BY ONLY <2>2, EmptySeq
  <2>4. Len(s) - 2 = 0 <=> Len(s) = 2
    BY <1>1
  <2> QED
    BY <2>1, <2>2, <2>3, <2>4
<1>8. ASSUME Len(s) > 2 PROVE Head(Tail(t)) = s[3]
  <2>1. Tail(t) # <<>> /\ Tail(t)[1] = t[2] /\ t[2] = s[3]
    BY <1>1, <1>4, <1>6, <1>7, <1>8
  <2> QED
    BY <2>1
<1> QED
  BY <1>1, <1>2, <1>3, <1>5, <1>6, <1>7, <1>8

\* Those that are the arguments of a command.
LEMMA ArgumentWords ==
  ASSUME NEW S, NEW s \in Seq(S)
  PROVE  /\ SubSeq(s, 2, 1) = <<>>
         /\ Len(s) > 1 => SubSeq(s, 2, 2) = <<s[2]>>
         /\ Len(s) > 2 => SubSeq(s, 2, 3) = Append(<<s[2]>>, s[3])
<1>1. Len(s) \in Nat /\ \A i \in 1..Len(s) : s[i] \in S
  BY LenProperties, ElementOfSeq
<1>2. SubSeq(s, 2, 1) = <<>>
  BY SubSeqEmpty
<1>3. ASSUME Len(s) > 1 PROVE SubSeq(s, 2, 2) = <<s[2]>>
  <2>1. PICK a \in S : a = s[2]
    BY <1>1, <1>3
  <2>2. \A i \in 2..2 : s[i] \in S
    BY <2>1
  <2>3. PICK t : t = SubSeq(s, 2, 2)
    OBVIOUS
  <2>4. t \in Seq(S) /\ Len(t) = 1 /\ t[1] = a
    BY <2>1, <2>2, <2>3, SubSeqProperties
  <2>5. <<a>> \in Seq(S) /\ Len(<<a>>) = 1 /\ <<a>>[1] = a
    OBVIOUS
  <2>6. t = <<a>>
    BY <2>4, <2>5, SeqEqual
  <2> QED
    BY <2>1, <2>3, <2>6
<1>4. ASSUME Len(s) > 2 PROVE SubSeq(s, 2, 3) = Append(<<s[2]>>, s[3])
  <2>1. PICK a \in S, b \in S : a = s[2] /\ b = s[3]
    BY <1>1, <1>4
  <2>2. \A i \in 2..3 : s[i] \in S
    BY <2>1
  <2>3. PICK t, u : t = SubSeq(s, 2, 3) /\ u = Append(<<a>>, b)
    OBVIOUS
  <2>4. t \in Seq(S) /\ Len(t) = 2 /\ t[1] = a /\ t[2] = b
    BY <2>1, <2>2, <2>3, SubSeqProperties
  <2>5. u \in Seq(S) /\ Len(u) = 2 /\ u[1] = a /\ u[2] = b
    BY <2>3
  <2>6. \A i \in 1..2 : t[i] = u[i]
    BY <2>4, <2>5
  <2>7. t = u
    BY <2>4, <2>5, <2>6, SeqEqual
  <2> QED
    BY <2>1, <2>3, <2>7
<1> QED
  BY <1>2, <1>3, <1>4

\* Each word that is read brings the command nearer to its call, or makes it help.
LEMMA ReadingKept ==
  ASSUME ReadInv, [ShellNext]_shellVars
  PROVE  ReadInv'
<1>1. /\ Words \in Seq(Word) /\ Len(Words) \in Nat
      /\ Words = <<>> => Command = "help"
      /\ Command \in {"help", "dir"} => Needed = 0
      /\ Command \in OneArgument => Needed = 1
      /\ Command \in TwoArguments => Needed = 2
      /\ \/ Command \in {"help", "dir"} \/ Command \in OneArgument
         \/ Command \in TwoArguments
      /\ Words = <<>> <=> Len(Words) = 0
  BY CommandFacts, EmptySeq DEF ReadInv
<1>2. ASSUME argv' = argv
      PROVE  /\ Words' = Words /\ Command' = Command /\ Needed' = Needed
             /\ Outcome' = Outcome
  BY <1>2 DEF Words, Command, Needed, Outcome
<1>3. CASE UNCHANGED shellVars
  BY <1>2, <1>3 DEF shellVars, ReadInv, CallMade
<1>4. CASE Join
  <2>1. /\ pc = "join" /\ pc' = "type" /\ stream' = Words
        /\ UNCHANGED <<argv, fail, type, args, called>>
    BY <1>4 DEF Join, Words
  <2> QED
    BY <1>2, <2>1 DEF ReadInv, CallMade
<1>5. CASE ReadType
  <2>1. /\ pc = "type" /\ pc' = "first" /\ stream = Words /\ ~fail
        /\ type' = IF Words # <<>> THEN to_input_type(Head(Words)) ELSE "help"
        /\ stream' = IF Words # <<>> THEN Tail(Words) ELSE Words
        /\ (fail' <=> Words = <<>>) /\ UNCHANGED <<argv, args, called>>
    BY <1>5 DEF ReadType, CanRead, Skip, ReadInv
  <2>2. type' = Command
    BY <1>1, <2>1, FirstWords DEF Command
  <2> QED
    BY <1>2, <2>1, <2>2 DEF ReadInv, CallMade
<1>6. CASE ReadNothing
  <2>1. /\ pc = "first" /\ pc' = "call" /\ type = Command /\ args = <<>> /\ Needed = 0
        /\ UNCHANGED <<argv, stream, fail, type, args, called>>
    BY <1>1, <1>6 DEF ReadNothing, ReadInv
  <2>2. IF Len(Words) <= Needed THEN type = "help"
                               ELSE type = Command /\ args = SubSeq(Words, 2, Needed + 1)
    BY <1>1, <2>1, ArgumentWords
  <2> QED
    BY <1>2, <2>1, <2>2 DEF ReadInv, CallMade
<1>7. ASSUME ReadOne \/ ReadFirst
      PROVE  /\ pc = "first" /\ Words # <<>> /\ UNCHANGED <<argv, called>>
             /\ IF Len(Words) > 1
                THEN type' = Command /\ ~fail' /\ args' = <<Words[2]>> /\ stream' = Tail(Tail(Words))
                ELSE type' = "help" /\ fail'
  <2>1. /\ pc = "first" /\ type = Command /\ args = <<>> /\ UNCHANGED <<argv, called>>
        /\ fail <=> Words = <<>>
        /\ Words # <<>> => stream = Tail(Words)
    BY <1>7 DEF ReadOne, ReadFirst, ReadInv
  <2>2. Words # <<>>
    BY <1>1, <1>7, <2>1 DEF ReadOne, ReadFirst, OneArgument, TwoArguments
  <2>3. READ_ARG
    BY <1>7 DEF ReadOne, ReadFirst
  <2>4. CanRead <=> Len(Words) > 1
    BY <1>1, <2>1, <2>2, FirstWords DEF CanRead
  <2>5. CASE Len(Words) > 1
    <3>1. Head(stream) = Words[2]
      BY <1>1, <2>1, <2>2, <2>5, FirstWords
    <3>2. /\ args' = Append(<<>>, Words[2]) /\ type' = type /\ stream' = Tail(stream) /\ ~fail'
      BY <2>1, <2>3, <2>4, <2>5, <3>1 DEF READ_ARG, Skip
    <3> QED
      BY <2>1, <2>2, <2>5, <3>2
  <2>6. CASE ~(Len(Words) > 1)
    BY <2>1, <2>2, <2>3, <2>4, <2>6 DEF READ_ARG
  <2> QED
    BY <2>5, <2>6
<1>8. CASE ReadOne
  <2>1. pc' = "call" /\ Needed = 1
    BY <1>1, <1>8 DEF ReadOne, ReadInv
  <2>2. IF Len(Words) <= Needed THEN type' = "help"
                               ELSE type' = Command /\ args' = SubSeq(Words, 2, Needed + 1)
    BY <1>1, <1>7, <1>8, <2>1, ArgumentWords
  <2> QED
    BY <1>2, <1>7, <1>8, <2>1, <2>2 DEF ReadInv, CallMade
<1>9. CASE ReadFirst
  <2>1. pc' = "second" /\ Command \in TwoArguments
    BY <1>9 DEF ReadFirst, ReadInv
  <2>2. (Command \in TwoArguments)'
    BY <1>2, <1>7, <1>9, <2>1 DEF TwoArguments
  <2> QED
    BY <1>2, <1>7, <1>9, <2>1, <2>2 DEF ReadInv, CallMade
<1>10. CASE ReadSecond
  <2>1. /\ pc = "second" /\ pc' = "call" /\ UNCHANGED <<argv, called>> /\ READ_ARG
        /\ Needed = 2 /\ called = <<>> /\ argv \in Argvs
        /\ IF Len(Words) > 1 THEN /\ type = Command /\ ~fail /\ args = <<Words[2]>>
                                  /\ stream = Tail(Tail(Words))
                             ELSE type = "help" /\ fail
    BY <1>1, <1>10 DEF ReadSecond, ReadInv
  <2>2. CanRead <=> Len(Words) > 2
    BY <1>1, <2>1, FirstWords DEF CanRead
  <2>3. IF Len(Words) <= 2 THEN type' = "help"
                          ELSE type' = Command /\ args' = SubSeq(Words, 2, 3)
    <3>1. CASE Len(Words) > 2
      <4>1. /\ type = Command /\ args = <<Words[2]>> /\ stream = Tail(Tail(Words))
            /\ Words # <<>> /\ CanRead
        BY <1>1, <2>1, <2>2, <3>1
      <4>2. Head(Tail(Tail(Words))) = Words[3]
        BY <1>1, <3>1, <4>1, FirstWords
      <4>3. args' = Append(args, Head(stream)) /\ type' = type
        BY <2>1, <4>1 DEF READ_ARG
      <4>4. args' = Append(<<Words[2]>>, Words[3]) /\ type' = Command
        BY <4>1, <4>2, <4>3
      <4> QED
        BY <1>1, <3>1, <4>4, ArgumentWords
    <3>2. CASE ~(Len(Words) > 2)
      BY <1>1, <2>1, <2>2, <3>2 DEF READ_ARG
    <3> QED
      BY <3>1, <3>2
  <2> QED
    BY <1>2, <2>1, <2>3 DEF ReadInv, CallMade
<1>11. CASE ShowHelp \/ Call
  <2>1. /\ pc = "call" /\ pc' = "done" /\ argv' = argv /\ argv \in Argvs
        /\ called' = <<IF type = "help" THEN <<"help", <<>>>> ELSE <<type, args>>>>
        /\ IF Len(Words) <= Needed THEN type = "help"
                                  ELSE type = Command /\ args = SubSeq(Words, 2, Needed + 1)
    <3>1. /\ pc = "call" /\ pc' = "done" /\ argv' = argv
          /\ called' = Append(called, IF type = "help" THEN <<"help", <<>>>> ELSE <<type, args>>)
      BY <1>11 DEF ShowHelp, Call, Stub
    <3>2. \A c : Append(<<>>, c) = <<c>>
      OBVIOUS
    <3>3. /\ called = <<>> /\ argv \in Argvs
          /\ IF Len(Words) <= Needed THEN type = "help"
                                    ELSE type = Command /\ args = SubSeq(Words, 2, Needed + 1)
      BY <3>1 DEF ReadInv
    <3> QED
      BY <3>1, <3>2, <3>3
  <2>2. Outcome = IF Len(Words) <= Needed THEN <<"help", <<>>>>
                       ELSE <<Command, SubSeq(Words, 2, Needed + 1)>>
    BY DEF Outcome
  <2>3. called' = <<Outcome>>
    <3>1. CASE Len(Words) <= Needed
      BY <2>1, <2>2, <3>1
    <3>2. CASE ~(Len(Words) <= Needed) /\ type # "help"
      BY <2>1, <2>2, <3>2
    <3>3. CASE ~(Len(Words) <= Needed) /\ type = "help"
      <4>1. Command = "help" /\ Needed = 0
        BY <1>1, <2>1, <3>3
      <4>2. SubSeq(Words, 2, Needed + 1) = <<>>
        BY <1>1, <4>1, ArgumentWords
      <4> QED
        BY <2>1, <2>2, <3>3, <4>1, <4>2
    <3> QED
      BY <3>1, <3>2, <3>3
  <2> QED
    BY <1>2, <2>1, <2>3 DEF ReadInv, CallMade
<1>12. CASE Done
  BY <1>3, <1>12 DEF Done
<1> QED
  BY <1>3, <1>4, <1>5, <1>6, <1>8, <1>9, <1>10, <1>11, <1>12 DEF ShellNext

\* One word from each argument: the words are the arguments.
LEMMA FlattenSingles ==
  ASSUME NEW S, NEW s \in Seq(Seq(S)), \A i \in 1..Len(s) : Len(s[i]) = 1
  PROVE  /\ Len(FlattenSeq(s)) = Len(s)
         /\ \A i \in 1..Len(s) : FlattenSeq(s)[i] = s[i][1]
<1> DEFINE n == Len(s)
           f == Joined(s, n)
           Good(i) == /\ f[i] \in Seq(S) /\ Len(f[i]) = i
                      /\ \A j \in 1..i : f[i][j] = s[j][1]
           P == {i \in 1..n : ~Good(i)}
<1>1. n \in Nat /\ \A i \in 1..n : s[i] \in Seq(S) /\ Len(s[i]) = 1
  BY LenProperties, ElementOfSeq
<1>2. CASE n = 0
  <2>1. FlattenSeq(s) = s
    BY <1>2, FlattenJoins
  <2> QED
    BY <1>2, <2>1
<1>3. CASE n # 0
  <2>1. \A i \in 1..n : f[i] = JoinedAt(s, f, i)
    BY <1>1, JoinsExists, JoinsAt
  <2>2. FlattenSeq(s) = f[n]
    BY <1>3, FlattenJoins
  <2> HIDE DEF f, n
  <2>3. ASSUME P # {} PROVE FALSE
    <3>1. PICK i \in P : \A j \in P : i <= j
      <4>1. P \in SUBSET Nat
        OBVIOUS
      <4> HIDE DEF P
      <4> QED
        BY <2>3, <4>1, LeastOfNats
    <3>2. i \in 1..n /\ ~Good(i) /\ f[i] = JoinedAt(s, f, i) /\ s[i] \in Seq(S) /\ Len(s[i]) = 1
      BY <1>1, <2>1
    <3>3. CASE i = 1
      <4>1. f[i] = s[i]
        BY <3>2, <3>3 DEF JoinedAt
      <4> QED
        BY <3>2, <3>3, <4>1
    <3>4. CASE i # 1
      <4>1. i - 1 \in 1..n /\ Good(i - 1)
        <5> HIDE DEF Good
        <5>1. i \in 1..n /\ i # 1 /\ n \in Nat
          BY ONLY <1>1, <3>2, <3>4
        <5>2. i - 1 \in 1..n /\ ~(i <= i - 1)
          BY ONLY <5>1
        <5>3. i - 1 \notin P
          <6> HIDE DEF P
          <6> QED
            BY ONLY <3>1, <5>2
        <5> QED
          BY ONLY <5>2, <5>3
      <4>2. f[i] = f[i - 1] \o s[i]
        BY <3>2, <3>4 DEF JoinedAt
      <4>3. PICK u, v : u = f[i - 1] /\ v = s[i]
        OBVIOUS
      <4>4. /\ u \in Seq(S) /\ v \in Seq(S) /\ Len(u) = i - 1 /\ Len(v) = 1
            /\ \A j \in 1..(i - 1) : u[j] = s[j][1]
        BY <3>2, <4>1, <4>3
      <4>5. /\ f[i] \in Seq(S) /\ Len(f[i]) = i
            /\ \A j \in 1..i : f[i][j] = IF j <= i - 1 THEN u[j] ELSE v[j - (i - 1)]
        <5>1. /\ u \o v \in Seq(S) /\ Len(u \o v) = Len(u) + Len(v)
              /\ \A j \in 1..(Len(u) + Len(v)) :
                   (u \o v)[j] = IF j <= Len(u) THEN u[j] ELSE v[j - Len(u)]
          BY <4>4, ConcatProperties
        <5>2. Len(u) + Len(v) = i /\ f[i] = u \o v
          <6>1. i \in Int
            BY <1>1, <3>2
          <6>2. Len(u) + Len(v) = i
            BY ONLY <4>4, <6>1
          <6>3. f[i] = u \o v
            BY <4>2, <4>3
          <6> QED
            BY <6>2, <6>3
        <5> HIDE DEF Good, P
        <5> QED
          BY <4>4, <5>1, <5>2
      <4>6. \A j \in 1..i : f[i][j] = s[j][1]
        <5> SUFFICES ASSUME NEW j \in 1..i PROVE f[i][j] = s[j][1]
          OBVIOUS
        <5>1. CASE j <= i - 1
          <6>1. j \in 1..(i - 1)
            BY <3>2, <5>1
          <6> QED
            BY <4>4, <4>5, <5>1, <6>1
        <5>2. CASE j = i
          <6>1. i - (i - 1) = 1 /\ ~(i <= i - 1)
            BY <3>2
          <6> QED
            BY <4>3, <4>5, <5>2, <6>1
        <5> QED
          BY <3>2, <5>1, <5>2
      <4> QED
        BY <3>2, <4>5, <4>6
    <3> QED
      BY <3>3, <3>4
  <2>4. n \in 1..n
    BY <1>1, <1>3
  <2>5. Good(n)
    BY <2>3, <2>4
  <2> QED
    BY <2>2, <2>5 DEF n
<1> QED
  BY <1>2, <1>3

\* A call has the words of its command.
LEMMA OutcomeFacts ==
  ASSUME argv \in Argvs
  PROVE  /\ Outcome[1] \in user_input_type
         /\ Len(Outcome[2]) = Parameters[Outcome[1]]
<1>1. /\ Words \in Seq(Word) /\ Len(Words) \in Nat /\ Command \in user_input_type
      /\ Needed \in Nat
  BY CommandFacts
<1>2. CASE Len(Words) <= Needed
  <2>1. Outcome = <<"help", <<>>>> /\ "help" \in user_input_type /\ Parameters["help"] = 0
    BY <1>2 DEF Outcome, Parameters, user_input_type
  <2>2. Len(<<>>) = 0
    BY EmptySeq
  <2> QED
    BY <2>1, <2>2
<1>3. CASE ~(Len(Words) <= Needed)
  <2>1. Outcome = <<Command, SubSeq(Words, 2, Needed + 1)>>
    BY <1>3 DEF Outcome
  <2>2. \A i \in 2..(Needed + 1) : Words[i] \in Word
    BY <1>1, <1>3, ElementOfSeq
  <2>3. Len(SubSeq(Words, 2, Needed + 1)) = Needed
    <3>1. Needed + 1 \in Int /\ (IF 2 <= Needed + 1 THEN (Needed + 1) - 2 + 1 ELSE 0) = Needed
      BY <1>1
    <3> QED
      BY <2>2, <3>1, SubSeqProperties
  <2> QED
    BY <1>1, <2>1, <2>3 DEF Needed
<1> QED
  BY <1>2, <1>3

\* When every argument is one word, the words make the call that the arguments promise.
LEMMA OutcomePromised ==
  ASSUME argv \in Argvs, OneWordEach
  PROVE  Received(Outcome) = Promised
<1>1. /\ Words \in Seq(Word) /\ Len(Words) \in Nat /\ Command \in user_input_type
      /\ Needed \in Nat
  BY CommandFacts
<1>2. /\ argv \in Seq(Seq(Word)) /\ DOMAIN argv = 1..Len(argv)
      /\ \A i \in 1..Len(argv) : argv[i] \in Seq(Word) /\ Len(argv[i]) = 1
  BY ArgvsAssumption, LenProperties, ElementOfSeq DEF OneWordEach
<1>3. Len(Words) = Len(argv) /\ \A i \in 1..Len(argv) : Words[i] = argv[i][1]
  BY <1>2, FlattenSingles DEF Words
<1>4. Command = IF argv = <<>> THEN "help" ELSE CommandOf(argv[1])
  <2>1. argv = <<>> <=> Words = <<>>
    BY <1>1, <1>2, <1>3, EmptySeq
  <2>2. ASSUME argv # <<>> PROVE 1 \in 1..Len(argv)
    BY <1>2, <2>2, EmptySeq, LenProperties
  <2> QED
    BY <1>2, <1>3, <2>1, <2>2 DEF Command, CommandOf
<1>5. Promised = IF Len(argv) <= Needed THEN <<"help", <<>>>>
                 ELSE <<Command, SubSeq(argv, 2, Needed + 1)>>
  BY <1>4 DEF Promised, Needed
<1>6. CASE Len(Words) <= Needed
  <2>1. Outcome = <<"help", <<>>>> /\ Promised = <<"help", <<>>>>
    BY <1>3, <1>5, <1>6 DEF Outcome
  <2>2. Outcome[1] = "help" /\ Outcome[2] = <<>> /\ DOMAIN Outcome[2] = {}
    BY <2>1
  <2>3. [i \in DOMAIN Outcome[2] |-> <<Outcome[2][i]>>] = <<>>
    BY <2>2
  <2> QED
    BY <2>1, <2>2, <2>3 DEF Received
<1>7. CASE ~(Len(Words) <= Needed)
  <2>1. PICK w, a : w = SubSeq(Words, 2, Needed + 1) /\ a = SubSeq(argv, 2, Needed + 1)
    OBVIOUS
  <2>2. \A i \in 2..(Needed + 1) : i \in 1..Len(argv) /\ Words[i] \in Word /\ argv[i] \in Seq(Word)
    BY <1>1, <1>2, <1>3, <1>7, ElementOfSeq
  <2>3. /\ w \in Seq(Word) /\ Len(w) = Needed /\ \A i \in 1..Needed : w[i] = Words[i + 1]
        /\ a \in Seq(Seq(Word)) /\ Len(a) = Needed /\ \A i \in 1..Needed : a[i] = argv[i + 1]
    <3>1. /\ 2 \in Int /\ Needed + 1 \in Int
          /\ (IF 2 <= Needed + 1 THEN (Needed + 1) - 2 + 1 ELSE 0) = Needed
          /\ (Needed + 1) - 2 + 1 = Needed /\ \A i \in 1..Needed : 2 + i - 1 = i + 1
      BY <1>1
    <3>2. /\ w \in Seq(Word) /\ Len(w) = Needed /\ \A i \in 1..Needed : w[i] = Words[2 + i - 1]
      BY <2>1, <2>2, <3>1, SubSeqProperties
    <3>3. /\ a \in Seq(Seq(Word)) /\ Len(a) = Needed /\ \A i \in 1..Needed : a[i] = argv[2 + i - 1]
      BY <2>1, <2>2, <3>1, SubSeqProperties
    <3> QED
      BY <3>1, <3>2, <3>3
  <2>4. DOMAIN w = 1..Needed /\ DOMAIN a = 1..Needed
    BY <2>3, LenProperties
  <2>5. \A i \in 1..Needed : <<w[i]>> = a[i]
    <3> SUFFICES ASSUME NEW i \in 1..Needed PROVE <<w[i]>> = a[i]
      OBVIOUS
    <3>1. i + 1 \in 2..(Needed + 1)
      BY <1>1
    <3>2. PICK x : x = argv[i + 1]
      OBVIOUS
    <3>3. x \in Seq(Word) /\ Len(x) = 1 /\ w[i] = x[1] /\ a[i] = x
      BY <1>2, <1>3, <2>2, <2>3, <3>1, <3>2
    <3>4. x[1] \in Word
      BY <3>3, ElementOfSeq
    <3>5. <<x[1]>> \in Seq(Word) /\ Len(<<x[1]>>) = 1 /\ <<x[1]>>[1] = x[1]
      BY <3>4
    <3>6. <<x[1]>> = x
      BY <3>3, <3>5, SeqEqual
    <3> QED
      BY <3>3, <3>6
  <2>6. [i \in DOMAIN w |-> <<w[i]>>] = a
    <3>1. a = [i \in 1..Needed |-> a[i]]
      BY <2>3, <2>4
    <3> QED
      BY <2>4, <2>5, <3>1
  <2>7. Outcome = <<Command, w>> /\ Promised = <<Command, a>>
    BY <1>3, <1>5, <1>7, <2>1 DEF Outcome
  <2>8. Outcome[1] = Command /\ Outcome[2] = w
    BY <2>7
  <2> QED
    BY <2>6, <2>7, <2>8 DEF Received
<1> QED
  BY <1>6, <1>7

\* Whatever the arguments are and however many, of one word, several or none, the shell makes
\* one call, with as many words as the command has parameters; and when each argument is one
\* word, that is the call that its help message promises for them.
THEOREM CommandsDispatched == ShellSpec => []Dispatches
<1>1. ShellInit => ReadInv
  BY DEF ShellInit, ReadInv, CallMade
<1>2. ReadInv /\ [ShellNext]_shellVars => ReadInv'
  BY ReadingKept
<1>3. ReadInv => Dispatches
  <2> SUFFICES ASSUME ReadInv, pc = "done"
               PROVE  /\ Len(called) = 1 /\ Len(called[1][2]) = Parameters[called[1][1]]
                      /\ OneWordEach => Received(called[1]) = Promised
    BY DEF Dispatches
  <2>1. argv \in Argvs /\ called = <<Outcome>>
    BY DEF ReadInv, CallMade
  <2>2. Len(called) = 1 /\ called[1] = Outcome
    BY <2>1
  <2> QED
    BY <2>1, <2>2, OutcomeFacts, OutcomePromised
<1> QED
  BY <1>1, <1>2, <1>3, PTL DEF ShellSpec
=============================================================================
