------------------------ MODULE MemoryManagerProofs ------------------------
(****************************************************************************)
(* Theorems about MemoryManager, for any memory, any tables and any sizes   *)
(* and indices that are typed.  The argument: `use_buf_counter' is at least *)
(* the number of occupied entries, block 0 keeps the size of the memory,    *)
(* and what is available never exceeds what is not in use.                  *)
(****************************************************************************)
EXTENDS MemoryManager, FiniteSetTheorems, TLAPS

-----------------------------------------------------------------------------
(* Sums over finite sets. SumOf is a fold, that is a recursive function on the      *)
(* subsets of S: Iter solves Body. What holds for every sum is shown for a smallest *)
(* subset for which it would not hold.                                              *)

Pick(s) == CHOOSE x \in s : TRUE
Body(f, g, D) == [s \in D |-> IF s = {} THEN 0 ELSE f[Pick(s)] + g[s \ {Pick(s)}]]
Iter(f, S) == CHOOSE g : g = Body(f, g, SUBSET S)

LEMMA SumIter == \A f, S : SumOf(f, S) = Iter(f, S)[S]
BY DEF SumOf, MapThenSumSet, MapThenFoldSet, Iter, Body, Pick

LEMMA PickIn == \A s : s # {} => Pick(s) \in s
BY DEF Pick

LEMMA Smallest ==
  ASSUME NEW S, IsFiniteSet(S), NEW P \in SUBSET SUBSET S, P # {}
  PROVE \E T \in P : \A U \in P : U \subseteq T => U = T
<1>1. IsWellFoundedOn(StrictSubsetOrdering(S), SUBSET S)
  BY FS_StrictSubsetOrderingWellFounded, FS_FiniteSubsetsOfFinite
<1>2. PICK T \in P : \A U \in P : ~(<<U, T>> \in StrictSubsetOrdering(S))
  BY <1>1, WFMin
<1> QED
  BY <1>2 DEF StrictSubsetOrdering

LEMMA IterUnique ==
  ASSUME NEW S, IsFiniteSet(S), NEW f, NEW g, NEW h, NEW T \in SUBSET S,
         g = Body(f, g, SUBSET S), h = Body(f, h, SUBSET T)
  PROVE  h[T] = g[T]
<1> DEFINE P == {U \in SUBSET T : h[U] # g[U]}
<1> SUFFICES ASSUME P # {} PROVE FALSE
  OBVIOUS
<1>1. P \in SUBSET SUBSET S
  OBVIOUS
<1>2. PICK U \in P : \A V \in P : V \subseteq U => V = U
  <2> HIDE DEF P
  <2> QED
    BY <1>1, Smallest
<1>3. g[U] = IF U = {} THEN 0 ELSE f[Pick(U)] + g[U \ {Pick(U)}]
  BY DEF Body
<1>4. h[U] = IF U = {} THEN 0 ELSE f[Pick(U)] + h[U \ {Pick(U)}]
  BY DEF Body
<1>5. U # {}
  BY <1>3, <1>4
<1>6. U \ {Pick(U)} \notin P
  BY <1>2, <1>5, PickIn
<1> QED
  BY <1>3, <1>4, <1>6

\* The recursive definition of the fold has a solution.
LEMMA IterExists ==
  ASSUME NEW S, IsFiniteSet(S), NEW f
  PROVE  \E g : g = Body(f, g, SUBSET S)
<1> DEFINE P == {T \in SUBSET S : ~ \E g : g = Body(f, g, SUBSET T)}
<1> SUFFICES ASSUME P # {} PROVE FALSE
  OBVIOUS
<1>1. P \in SUBSET SUBSET S
  OBVIOUS
<1>2. PICK T \in P : \A V \in P : V \subseteq T => V = T
  <2> HIDE DEF P
  <2> QED
    BY <1>1, Smallest
<1>3. \A U \in SUBSET T : U # T => \E h : h = Body(f, h, SUBSET U)
  BY <1>2
<1> DEFINE h(U) == CHOOSE k : k = Body(f, k, SUBSET U)
           low == [U \in SUBSET T |-> h(U)[U]]
           g == [U \in SUBSET T |-> IF U = {} THEN 0 ELSE f[Pick(U)] + low[U \ {Pick(U)}]]
<1>4. \A U \in SUBSET T : U # T => h(U) = Body(f, h(U), SUBSET U)
  BY <1>3
<1>5. \A U \in SUBSET T : U # T => g[U] = low[U]
  <2> SUFFICES ASSUME NEW U \in SUBSET T, U # T PROVE g[U] = low[U]
    OBVIOUS
  <2>1. h(U)[U] = IF U = {} THEN 0 ELSE f[Pick(U)] + h(U)[U \ {Pick(U)}]
    <3>1. h(U) = Body(f, h(U), SUBSET U)
      BY <1>4
    <3> HIDE DEF h
    <3> QED
      BY <3>1 DEF Body
  <2>2. ASSUME U # {} PROVE h(U)[U \ {Pick(U)}] = h(U \ {Pick(U)})[U \ {Pick(U)}]
    <3> DEFINE V == U \ {Pick(U)}
    <3>1. V \in SUBSET U /\ V \in SUBSET T /\ V # T
      OBVIOUS
    <3>2. h(U) = Body(f, h(U), SUBSET U) /\ h(V) = Body(f, h(V), SUBSET V)
      BY <3>1, <1>4
    <3>3. IsFiniteSet(U)
      BY FS_Subset
    <3>4. \A k, l : k = Body(f, k, SUBSET U) /\ l = Body(f, l, SUBSET V) => l[V] = k[V]
      <4> HIDE DEF V
      <4> QED
        BY <3>1, <3>3, IterUnique
    <3> HIDE DEF h
    <3> QED
      BY <3>2, <3>4
  <2> QED
    BY <2>1, <2>2
<1>6. g = Body(f, g, SUBSET T)
  <2>1. \A U \in SUBSET T : U # {} => g[U \ {Pick(U)}] = low[U \ {Pick(U)}]
    BY <1>5, PickIn
  <2>2. g = [U \in SUBSET T |-> IF U = {} THEN 0 ELSE f[Pick(U)] + g[U \ {Pick(U)}]]
    <3> HIDE DEF low
    <3> QED
      BY <2>1
  <2> QED
    BY <2>2 DEF Body
<1> QED
  BY <1>6

LEMMA SumStep ==
  ASSUME NEW S, IsFiniteSet(S), S # {}, NEW f
  PROVE  /\ Pick(S) \in S
         /\ SumOf(f, S) = f[Pick(S)] + SumOf(f, S \ {Pick(S)})
<1> DEFINE T == S \ {Pick(S)}
<1>1. IsFiniteSet(T) /\ T \in SUBSET S
  BY FS_Subset
<1>2. Iter(f, S) = Body(f, Iter(f, S), SUBSET S) /\ Iter(f, T) = Body(f, Iter(f, T), SUBSET T)
  BY <1>1, IterExists DEF Iter
<1>3. Iter(f, T)[T] = Iter(f, S)[T]
  BY <1>1, <1>2, IterUnique
<1>4. Iter(f, S)[S] = f[Pick(S)] + Iter(f, S)[T]
  BY <1>2 DEF Body
<1> QED
  BY <1>3, <1>4, SumIter, PickIn

LEMMA SumEmpty == \A f : SumOf(f, {}) = 0
<1> SUFFICES ASSUME NEW f PROVE SumOf(f, {}) = 0
  OBVIOUS
<1>1. Iter(f, {}) = Body(f, Iter(f, {}), SUBSET {})
  BY FS_EmptySet, IterExists DEF Iter
<1> QED
  BY <1>1, SumIter DEF Body

\* The sum of natural numbers is one.
LEMMA SumNat ==
  ASSUME NEW S, IsFiniteSet(S), NEW f, \A i \in S : f[i] \in Nat
  PROVE  SumOf(f, S) \in Nat
<1> DEFINE P == {T \in SUBSET S : SumOf(f, T) \notin Nat}
<1> SUFFICES ASSUME P # {} PROVE FALSE
  OBVIOUS
<1>1. P \in SUBSET SUBSET S
  OBVIOUS
<1>2. PICK T \in P : \A U \in P : U \subseteq T => U = T
  <2> HIDE DEF P
  <2> QED
    BY <1>1, Smallest
<1>3. T # {} /\ IsFiniteSet(T)
  <2>1. SumOf(f, T) \notin Nat /\ T \in SUBSET S
    OBVIOUS
  <2>2. SumOf(f, {}) \in Nat
    BY SumEmpty
  <2> QED
    BY <2>1, <2>2, FS_Subset
<1>4. Pick(T) \in T /\ SumOf(f, T) = f[Pick(T)] + SumOf(f, T \ {Pick(T)})
  BY <1>3, SumStep
<1>5. SumOf(f, T \ {Pick(T)}) \in Nat
  BY <1>2, <1>4
<1> QED
  BY <1>4, <1>5

\* An element may be taken out of the sum.
LEMMA SumRemove ==
  ASSUME NEW S, IsFiniteSet(S), NEW f, \A i \in S : f[i] \in Nat, NEW x \in S
  PROVE  SumOf(f, S) = f[x] + SumOf(f, S \ {x})
<1> DEFINE P == {T \in SUBSET S : \E y \in T : SumOf(f, T) # f[y] + SumOf(f, T \ {y})}
<1> SUFFICES ASSUME P # {} PROVE FALSE
  OBVIOUS
<1>1. P \in SUBSET SUBSET S
  OBVIOUS
<1>2. PICK T \in P : \A U \in P : U \subseteq T => U = T
  <2> HIDE DEF P
  <2> QED
    BY <1>1, Smallest
<1>3. PICK y \in T : SumOf(f, T) # f[y] + SumOf(f, T \ {y})
  OBVIOUS
<1> DEFINE p == Pick(T)
<1>4. p \in T /\ SumOf(f, T) = f[p] + SumOf(f, T \ {p})
  BY <1>3, SumStep, FS_Subset
<1>5. p # y
  BY <1>3, <1>4
<1>6. SumOf(f, T \ {p}) = f[y] + SumOf(f, (T \ {p}) \ {y})
  BY <1>2, <1>4, <1>5
<1>7. SumOf(f, T \ {y}) = f[p] + SumOf(f, (T \ {y}) \ {p})
  BY <1>2, <1>4, <1>5
<1>8. (T \ {p}) \ {y} = (T \ {y}) \ {p}
  OBVIOUS
<1>9. SumOf(f, (T \ {p}) \ {y}) \in Nat /\ f[p] \in Nat /\ f[y] \in Nat
  BY <1>4, SumNat, FS_Subset
<1> HIDE DEF p
<1> QED
  BY <1>3, <1>4, <1>6, <1>7, <1>8, <1>9

\* The sum depends on the summands only.
LEMMA SumSame ==
  ASSUME NEW S, IsFiniteSet(S), NEW f, NEW g, \A i \in S : f[i] = g[i]
  PROVE  SumOf(f, S) = SumOf(g, S)
<1> DEFINE P == {T \in SUBSET S : SumOf(f, T) # SumOf(g, T)}
<1> SUFFICES ASSUME P # {} PROVE FALSE
  OBVIOUS
<1>1. P \in SUBSET SUBSET S
  OBVIOUS
<1>2. PICK T \in P : \A U \in P : U \subseteq T => U = T
  <2> HIDE DEF P
  <2> QED
    BY <1>1, Smallest
<1>3. T # {} /\ IsFiniteSet(T)
  BY SumEmpty, FS_Subset
<1>4. /\ Pick(T) \in T /\ SumOf(f, T) = f[Pick(T)] + SumOf(f, T \ {Pick(T)})
      /\ SumOf(g, T) = g[Pick(T)] + SumOf(g, T \ {Pick(T)})
  BY <1>3, SumStep
<1>5. SumOf(f, T \ {Pick(T)}) = SumOf(g, T \ {Pick(T)})
  BY <1>2, <1>4
<1> QED
  BY <1>4, <1>5

-----------------------------------------------------------------------------
(* The heap *)

Heap == [available_memory : 0..ALL_MEMORY,
         block_buf : [Entries -> Address], block_buf_size : [Entries -> Nat],
         block_buf_counter : 1..BLOCK_SIZE,
         use_buf : [Entries -> Address], block_size : [Entries -> Nat],
         use_buf_counter : 0..BLOCK_SIZE, last_block_use_buf : Nat]

OccupiedIn(h) == {i \in Entries : h.use_buf[i] # NULL}

\* The entries in use are counted, and where the searches look.
Counted(h) ==
  /\ Cardinality(OccupiedIn(h)) <= h.use_buf_counter
  /\ h.use_buf_counter <= h.last_block_use_buf
  /\ \A i \in OccupiedIn(h) : i < h.last_block_use_buf

BlockZero(h) == h.block_buf_size[0] = ALL_MEMORY /\ h.block_buf[0] # NULL

Balanced(h) == h.available_memory + SumOf(h.block_size, OccupiedIn(h)) <= ALL_MEMORY

HeapInv(h) == h \in Heap /\ Counted(h) /\ BlockZero(h) /\ Balanced(h)

IInv == HeapInv(heap) /\ TypeOK

\* A nonempty set of natural numbers has a first element.
LEMMA FirstIn ==
  ASSUME NEW S \in SUBSET Nat, S # {}
  PROVE  First(S) \in S /\ \A j \in S : First(S) <= j
<1> DEFINE R == OpToRel(<, Nat)
<1>1. IsWellFoundedOn(R, Nat) /\ \A i, j \in Nat : j < i => <<j, i>> \in R
  BY NatLessThanWellFounded DEF OpToRel
<1> HIDE DEF R
<1>2. PICK i \in S : \A j \in S : ~(<<j, i>> \in R)
  BY <1>1, WFMin
<1>3. ASSUME NEW j \in S PROVE i <= j
  <2>1. i \in Nat /\ j \in Nat /\ ~(j < i)
    BY <1>1, <1>2
  <2> QED
    BY <2>1
<1> QED
  BY <1>3 DEF First

\* What the occupied entries add up to is a natural number, each a part of it.
LEMMA OccupiedFacts ==
  ASSUME NEW h \in Heap
  PROVE  /\ IsFiniteSet(OccupiedIn(h)) /\ Cardinality(OccupiedIn(h)) \in Nat
         /\ SumOf(h.block_size, OccupiedIn(h)) \in Nat
         /\ \A i : SumOf(h.block_size, OccupiedIn(h) \ {i}) \in Nat
         /\ \A i \in OccupiedIn(h) :
              SumOf(h.block_size, OccupiedIn(h)) =
                h.block_size[i] + SumOf(h.block_size, OccupiedIn(h) \ {i})
<1>1. IsFiniteSet(Entries)
  BY TablesAssumption, FS_Interval DEF Entries
<1>2. OccupiedIn(h) \in SUBSET Entries
  BY DEF OccupiedIn
<1>3. IsFiniteSet(OccupiedIn(h)) /\ Cardinality(OccupiedIn(h)) \in Nat
  BY <1>1, <1>2, FS_Subset, FS_CardinalityType
<1>4. \A i \in OccupiedIn(h) : h.block_size[i] \in Nat
  BY <1>2 DEF Heap
<1>5. SumOf(h.block_size, OccupiedIn(h)) \in Nat
  BY <1>3, <1>4, SumNat
<1>6. ASSUME NEW i PROVE SumOf(h.block_size, OccupiedIn(h) \ {i}) \in Nat
  <2>1. IsFiniteSet(OccupiedIn(h) \ {i})
    BY <1>3, FS_RemoveElement
  <2> QED
    BY <1>4, <2>1, SumNat
<1>7. ASSUME NEW i \in OccupiedIn(h)
      PROVE  SumOf(h.block_size, OccupiedIn(h)) =
               h.block_size[i] + SumOf(h.block_size, OccupiedIn(h) \ {i})
  BY <1>3, <1>4, SumRemove
<1> QED
  BY <1>3, <1>5, <1>6, <1>7

\* A request that the memory can still satisfy is satisfied from block 0.
LEMMA FitsFirst ==
  ASSUME NEW h, HeapInv(h), NEW size \in Nat, size <= h.available_memory
  PROVE  CanTake(h, size) /\ First(Fitting(h, size)) = 0
<1>1. 0 \in Fitting(h, size) /\ Fitting(h, size) \in SUBSET Nat
  BY TablesAssumption DEF HeapInv, Heap, BlockZero, Fitting
<1>2. First(Fitting(h, size)) = 0
  BY <1>1, FirstIn
<1> QED
  BY <1>1, <1>2 DEF CanTake, CanTakeUnchecked, HeapInv, BlockZero

LEMMA TakeKeeps ==
  ASSUME NEW h, HeapInv(h), NEW size \in Nat, CanTake(h, size), ~MallocOverrun(h, size)
  PROVE  HeapInv(Take(h, size))
<1> DEFINE c == h.use_buf_counter
           n == Take(h, size)
<1> USE TablesAssumption
<1>1. h \in Heap /\ size <= h.available_memory /\ c \in Entries
  BY DEF HeapInv, Heap, CanTake, MallocOverrun, Entries
<1>2. First(Fitting(h, size)) = 0 /\ 0 \in Entries /\ h.block_buf[0] # NULL
  BY <1>1, FitsFirst DEF Entries, HeapInv, BlockZero
<1>3. n = [h EXCEPT !.use_buf[c] = h.block_buf[0], !.block_size[c] = size,
                    !.use_buf_counter = c + 1,
                    !.last_block_use_buf = h.last_block_use_buf + 1,
                    !.block_buf[0] = 1,
                    !.available_memory = h.available_memory - size]
  BY <1>1, <1>2 DEF Take, TakeCharging, Heap
<1>4. n \in Heap
  <2>1. /\ c + 1 \in 0..BLOCK_SIZE /\ h.last_block_use_buf + 1 \in Nat
        /\ h.available_memory - size \in 0..ALL_MEMORY
    BY <1>1 DEF Heap, Entries
  <2>2. /\ [h.use_buf EXCEPT ![c] = h.block_buf[0]] \in [Entries -> Address]
        /\ [h.block_size EXCEPT ![c] = size] \in [Entries -> Nat]
        /\ [h.block_buf EXCEPT ![0] = 1] \in [Entries -> Address]
    BY <1>1, <1>2 DEF Heap, Address
  <2> HIDE DEF c
  <2> QED
    BY <1>1, <1>3, <2>1, <2>2 DEF Heap
<1>5. OccupiedIn(n) = OccupiedIn(h) \cup {c}
  BY <1>1, <1>2, <1>3 DEF OccupiedIn, Heap
<1>6. Counted(n)
  <2>1. Cardinality(OccupiedIn(n)) <= Cardinality(OccupiedIn(h)) + 1
    BY <1>1, <1>5, OccupiedFacts, FS_AddElement
  <2>2. /\ n.use_buf_counter = c + 1 /\ n.last_block_use_buf = h.last_block_use_buf + 1
        /\ c \in Nat /\ h.last_block_use_buf \in Nat
    BY <1>1, <1>3 DEF Heap
  <2>3. Cardinality(OccupiedIn(h)) \in Nat /\ Cardinality(OccupiedIn(n)) \in Nat
    BY <1>1, <1>4, OccupiedFacts
  <2>4. Counted(h) /\ \A i \in OccupiedIn(h) : i \in Nat
    BY DEF HeapInv, OccupiedIn, Entries
  <2> HIDE DEF n
  <2> QED
    BY <1>5, <2>1, <2>2, <2>3, <2>4 DEF Counted
<1>7. BlockZero(n)
  BY <1>1, <1>2, <1>3 DEF HeapInv, BlockZero, Heap, NULL
<1>8. Balanced(n)
  <2>1. c \in OccupiedIn(n) /\ n.block_size[c] = size
    BY <1>1, <1>3, <1>5 DEF Heap
  <2>2. SumOf(n.block_size, OccupiedIn(n)) = size + SumOf(n.block_size, OccupiedIn(n) \ {c})
    BY <1>4, <2>1, OccupiedFacts
  <2>3. OccupiedIn(n) \ {c} = OccupiedIn(h) \ {c}
    BY <1>5
  <2>4. \A i \in OccupiedIn(h) \ {c} : n.block_size[i] = h.block_size[i]
    BY <1>1, <1>3 DEF Heap, OccupiedIn
  <2>5. SumOf(n.block_size, OccupiedIn(h) \ {c}) = SumOf(h.block_size, OccupiedIn(h) \ {c})
    BY <1>1, <2>4, OccupiedFacts, FS_RemoveElement, SumSame
  <2>6. /\ SumOf(h.block_size, OccupiedIn(h) \ {c}) \in Nat
        /\ SumOf(h.block_size, OccupiedIn(h)) \in Nat
    BY <1>1, OccupiedFacts
  <2>7. SumOf(h.block_size, OccupiedIn(h) \ {c}) <= SumOf(h.block_size, OccupiedIn(h))
    <3>1. CASE c \in OccupiedIn(h)
      <4>1. h.block_size[c] \in Nat
        BY <1>1 DEF Heap
      <4>2. SumOf(h.block_size, OccupiedIn(h)) =
              h.block_size[c] + SumOf(h.block_size, OccupiedIn(h) \ {c})
        BY <1>1, <3>1, OccupiedFacts
      <4> HIDE DEF c
      <4> QED
        BY <2>6, <4>1, <4>2
    <3>2. CASE c \notin OccupiedIn(h)
      <4>1. OccupiedIn(h) \ {c} = OccupiedIn(h)
        BY <3>2
      <4> QED
        BY <2>6, <4>1
    <3> QED
      BY <3>1, <3>2
  <2>8. n.available_memory = h.available_memory - size /\ h.available_memory \in Nat
    BY <1>1, <1>3 DEF Heap
  <2>9. h.available_memory + SumOf(h.block_size, OccupiedIn(h)) <= ALL_MEMORY
    BY DEF HeapInv, Balanced
  <2> HIDE DEF n, c
  <2> QED
    BY <2>2, <2>3, <2>5, <2>6, <2>7, <2>8, <2>9 DEF Balanced
<1> QED
  BY <1>4, <1>6, <1>7, <1>8 DEF HeapInv

LEMMA GiveKeeps ==
  ASSUME NEW h, HeapInv(h), NEW block, Known(h, block), ~FreeOverrun(h, block)
  PROVE  HeapInv(Give(h, First(Holding(h, block))))
<1> DEFINE i == First(Holding(h, block))
           at == h.block_buf_counter
           n == Give(h, i)
<1> USE TablesAssumption
<1>1. h \in Heap /\ at \in Entries \ {0}
  <2>1. h \in Heap /\ at \in 1..BLOCK_SIZE
    BY DEF HeapInv, Heap
  <2>2. at < BLOCK_SIZE
    BY <2>1 DEF FreeOverrun
  <2> QED
    BY <2>1, <2>2 DEF Entries
<1>2. i \in OccupiedIn(h) /\ i \in Entries
  <2>1. Holding(h, block) \in SUBSET Nat /\ Holding(h, block) # {} /\ block # NULL
    BY DEF Known, Holding, Entries
  <2>2. i \in Holding(h, block)
    BY <2>1, FirstIn
  <2> HIDE DEF i
  <2> QED
    BY <2>1, <2>2 DEF Holding, OccupiedIn
<1> HIDE DEF i
<1>3. n = [h EXCEPT !.use_buf[i] = NULL, !.use_buf_counter = h.use_buf_counter - 1,
                    !.block_buf[at] = h.use_buf[i], !.block_buf_size[at] = h.block_size[i],
                    !.block_buf_counter = at + 1,
                    !.available_memory = h.available_memory + h.block_size[i]]
  BY <1>1 DEF Give, Release, Heap
<1>4. OccupiedIn(n) = OccupiedIn(h) \ {i}
  BY <1>1, <1>2, <1>3 DEF OccupiedIn, Heap
<1>5. /\ Cardinality(OccupiedIn(h)) \in Nat
      /\ Cardinality(OccupiedIn(n)) = Cardinality(OccupiedIn(h)) - 1
      /\ Cardinality(OccupiedIn(n)) \in Nat
  BY <1>1, <1>2, <1>4, OccupiedFacts, FS_RemoveElement, FS_CardinalityType
<1>6. h.use_buf_counter \in 1..BLOCK_SIZE
  BY <1>1, <1>5 DEF HeapInv, Counted, Heap
<1>7. /\ SumOf(h.block_size, OccupiedIn(h)) =
           h.block_size[i] + SumOf(h.block_size, OccupiedIn(n))
      /\ SumOf(h.block_size, OccupiedIn(n)) \in Nat
  BY <1>1, <1>2, <1>4, OccupiedFacts
<1>8. /\ h.available_memory + SumOf(h.block_size, OccupiedIn(h)) <= ALL_MEMORY
      /\ h.block_size[i] \in Nat /\ h.available_memory \in Nat
  BY <1>1, <1>2 DEF HeapInv, Balanced, Heap
<1>9. h.available_memory + h.block_size[i] \in 0..ALL_MEMORY
  BY <1>7, <1>8
<1>10. n \in Heap
  <2>1. at + 1 \in 1..BLOCK_SIZE /\ h.use_buf_counter - 1 \in 0..BLOCK_SIZE
    BY <1>1, <1>6 DEF Entries
  <2>2. /\ [h.use_buf EXCEPT ![i] = NULL] \in [Entries -> Address]
        /\ [h.block_buf EXCEPT ![at] = h.use_buf[i]] \in [Entries -> Address]
        /\ [h.block_buf_size EXCEPT ![at] = h.block_size[i]] \in [Entries -> Nat]
    BY <1>1, <1>2 DEF Heap, Address, NULL
  <2> HIDE DEF at
  <2> QED
    BY <1>1, <1>3, <1>9, <2>1, <2>2 DEF Heap
<1>11. Counted(n)
  <2>1. /\ n.use_buf_counter = h.use_buf_counter - 1 /\ h.use_buf_counter \in Nat
        /\ n.last_block_use_buf = h.last_block_use_buf /\ h.last_block_use_buf \in Nat
    BY <1>1, <1>3, <1>6 DEF Heap
  <2>2. Counted(h)
    BY DEF HeapInv
  <2> HIDE DEF n
  <2> QED
    BY <1>4, <1>5, <2>1, <2>2 DEF Counted
<1>12. BlockZero(n)
  BY <1>1, <1>3 DEF HeapInv, BlockZero, Heap
<1>13. Balanced(n)
  <2>1. /\ n.block_size = h.block_size
        /\ n.available_memory = h.available_memory + h.block_size[i]
    BY <1>1, <1>3 DEF Heap
  <2> HIDE DEF n
  <2> QED
    BY <1>7, <1>8, <2>1 DEF Balanced
<1> QED
  BY <1>10, <1>11, <1>12, <1>13 DEF HeapInv, i

\* Every function of the manager keeps the tables in order, as long as it stays inside
\* of them.
LEMMA MallocKeeps ==
  ASSUME NEW h, HeapInv(h), NEW size \in Nat, ~MallocOverrun(h, size)
  PROVE  HeapInv(Malloc(h, size).heap) /\ Malloc(h, size).block \in Address
<1>1. CASE CanTake(h, size)
  <2>1. First(Fitting(h, size)) = 0
    BY <1>1, FitsFirst DEF CanTake
  <2>2. h.block_buf[0] \in Address
    BY TablesAssumption DEF HeapInv, Heap, Entries
  <2> QED
    BY <1>1, <2>1, <2>2, TakeKeeps DEF Malloc
<1>2. CASE ~CanTake(h, size)
  BY <1>2 DEF Malloc, Address, NULL
<1> QED
  BY <1>1, <1>2

LEMMA FreeKeeps ==
  ASSUME NEW h, HeapInv(h), NEW block, ~FreeOverrun(h, block)
  PROVE  HeapInv(Free(h, block))
BY GiveKeeps DEF Free

LEMMA ReallocKeeps ==
  ASSUME NEW h, HeapInv(h), NEW block, NEW size \in Nat, ~ReallocOverrun(h, block, size)
  PROVE  /\ HeapInv(Realloc(h, block, size).heap)
         /\ Realloc(h, block, size).block \in Address
<1>1. CASE Fresh(h, block)
  BY <1>1, MallocKeeps DEF Realloc, ReallocOverrun
<1>2. CASE ~Fresh(h, block)
  <2>1. HeapInv(Free(h, block))
    BY <1>2, FreeKeeps DEF ReallocOverrun
  <2>2. CASE size = 0
    BY <1>2, <2>1, <2>2 DEF Realloc, Address, NULL
  <2>3. CASE size # 0 /\ Known(h, block)
    BY <1>2, <2>1, <2>3, MallocKeeps DEF Realloc, ReallocOverrun
  <2>4. CASE size # 0 /\ ~Known(h, block)
    BY <1>2, <2>4 DEF Realloc, Address, NULL
  <2> QED
    BY <2>2, <2>3, <2>4
<1> QED
  BY <1>1, <1>2

-----------------------------------------------------------------------------
(* The program *)

LEMMA InitIInv == Init => IInv
<1> SUFFICES ASSUME Init PROVE IInv
  OBVIOUS
<1> USE TablesAssumption, AddressAssumption DEF Init, NULL
<1>1. heap \in Heap
  BY DEF Heap, Entries, Address
<1>2. OccupiedIn(heap) = {}
  BY DEF OccupiedIn
<1>3. Counted(heap)
  <2>1. heap.use_buf_counter = 0 /\ heap.last_block_use_buf = 0
    OBVIOUS
  <2>2. Cardinality(OccupiedIn(heap)) = 0
    BY <1>2, FS_EmptySet
  <2> QED
    BY <1>2, <2>1, <2>2 DEF Counted
<1>4. BlockZero(heap)
  BY DEF BlockZero, Entries
<1>5. Balanced(heap)
  <2>1. heap.available_memory = ALL_MEMORY
    OBVIOUS
  <2>2. SumOf(heap.block_size, OccupiedIn(heap)) = 0
    BY <1>2, SumEmpty
  <2> QED
    BY <2>1, <2>2 DEF Balanced
<1>6. TypeOK
  BY <1>1 DEF TypeOK, Heap, Address
<1> QED
  BY <1>1, <1>3, <1>4, <1>5, <1>6 DEF IInv, HeapInv

\* The result of a function is stored, and the program goes on or ends.
LEMMA StoreKeeps ==
  ASSUME IInv, NEW index, NEW result, Store(index, result),
         HeapInv(result.heap), result.block \in Address
  PROVE  IInv'
<1>1. HeapInv(heap')
  BY DEF Store
<1>2. TypeOK'
  BY <1>1 DEF HeapInv, Heap, IInv, TypeOK, Store
<1> QED
  BY <1>1, <1>2 DEF IInv, HeapInv, Heap, Counted, BlockZero, Balanced, OccupiedIn

\* A step that leaves the heap and the pointers alone keeps the invariant.
LEMMA StateKeeps ==
  ASSUME IInv, UNCHANGED <<heap, pointers>>, state' \in {"menu", "ended", "undefined"}
  PROVE  IInv'
BY DEF IInv, TypeOK, HeapInv, Heap, Counted, BlockZero, Balanced, OccupiedIn

LEMMA NextIInv == IInv /\ [Next]_vars => IInv'
<1> SUFFICES ASSUME IInv, [Next]_vars PROVE IInv'
  OBVIOUS
<1>0. HeapInv(heap)
  BY DEF IInv
<1>1. ASSUME NEW index \in Indices, NEW size \in Sizes, UseMalloc(index, size) PROVE IInv'
  <2>1. size \in Nat
    BY InputAssumption
  <2>2. CASE MallocOverrun(heap, size)
    BY <1>1, <2>2, StateKeeps DEF UseMalloc, Undefined
  <2>3. CASE ~MallocOverrun(heap, size)
    <3>1. Store(index, Malloc(heap, size))
      BY <1>1, <2>3 DEF UseMalloc
    <3> QED
      BY <1>0, <2>1, <2>3, <3>1, MallocKeeps, StoreKeeps
  <2> QED
    BY <2>2, <2>3
<1>2. ASSUME NEW index \in Indices, NEW size \in Sizes, UseRealloc(index, size) PROVE IInv'
  <2>1. size \in Nat
    BY InputAssumption
  <2>2. CASE ReallocOverrun(heap, pointers[index], size)
    BY <1>2, <2>2, StateKeeps DEF UseRealloc, Undefined
  <2>3. CASE ~ReallocOverrun(heap, pointers[index], size)
    <3>1. Store(index, Realloc(heap, pointers[index], size))
      BY <1>2, <2>3 DEF UseRealloc
    <3> QED
      BY <1>0, <2>1, <2>3, <3>1, ReallocKeeps, StoreKeeps
  <2> QED
    BY <2>2, <2>3
<1>3. ASSUME NEW index \in Indices, UseFree(index) PROVE IInv'
  <2>1. CASE FreeOverrun(heap, pointers[index])
    BY <1>3, <2>1, StateKeeps DEF UseFree, Undefined
  <2>2. CASE ~FreeOverrun(heap, pointers[index])
    <3>1. heap' = Free(heap, pointers[index]) /\ UNCHANGED <<pointers, state>>
      BY <1>3, <2>2 DEF UseFree
    <3>2. HeapInv(heap')
      BY <1>0, <2>2, <3>1, FreeKeeps
    <3>3. TypeOK'
      BY <3>1, <3>2 DEF HeapInv, Heap, IInv, TypeOK
    <3> QED
      BY <3>2, <3>3 DEF IInv, HeapInv, Heap, Counted, BlockZero, Balanced, OccupiedIn
  <2> QED
    BY <2>1, <2>2
<1>4. ASSUME NEW index \in Indices, WrongIndex(index) PROVE IInv'
  BY <1>4, StateKeeps DEF WrongIndex, Undefined
<1>5. CASE Quit
  BY <1>5, StateKeeps DEF Quit
<1>6. CASE Ended
  <2>1. UNCHANGED <<heap, pointers>> /\ state' \in {"menu", "ended", "undefined"}
    BY <1>6 DEF Ended, vars, IInv, TypeOK
  <2> QED
    BY <2>1, StateKeeps
<1>7. CASE UNCHANGED vars
  <2>1. UNCHANGED <<heap, pointers>> /\ state' \in {"menu", "ended", "undefined"}
    BY <1>7 DEF vars, IInv, TypeOK
  <2> QED
    BY <2>1, StateKeeps
<1> QED
  BY <1>1, <1>2, <1>3, <1>4, <1>5, <1>6, <1>7 DEF Next

LEMMA Invariance == Spec => []IInv
BY InitIInv, NextIInv, PTL DEF Spec

-----------------------------------------------------------------------------

\* Every variable keeps its type, for any sequence of menu commands: no counter of the
\* manager wraps around, and the available memory never exceeds what there is.
THEOREM TypesKept == Spec => []TypeOK
BY Invariance, PTL DEF IInv

\* use_buf_counter covers the occupied entries, and the searches of Free and Realloc see
\* all of them, whatever was freed twice or overwritten by Malloc.
THEOREM EntriesCounted == Spec => []CounterCovers
<1>1. IInv => CounterCovers
  BY DEF IInv, HeapInv, Counted, CounterCovers, OccupiedIn, Occupied
<1> QED
  BY <1>1, Invariance, PTL

\* What the occupied entries hold and what is available never add up to more than
\* ALL_MEMORY: Free gives back no more than was taken.
THEOREM MemoryBalanced == Spec => []Accounting
<1>1. IInv => Accounting
  BY DEF IInv, HeapInv, Balanced, Accounting, OccupiedIn, Occupied
<1> QED
  BY <1>1, Invariance, PTL

\* Both at any time.
THEOREM BooksBalance == Spec => []Books
BY TypesKept, MemoryBalanced, PTL DEF Books

\* Malloc fails only when too little memory is left, and takes every area from block 0.
THEOREM OneBlockServes == Spec => []BlockZeroFits
<1>1. IInv => BlockZeroFits
  <2> SUFFICES ASSUME IInv, NEW size \in Sizes, size <= heap.available_memory
               PROVE  CanTake(heap, size) /\ First(Fitting(heap, size)) = 0
    BY DEF BlockZeroFits
  <2> QED
    BY InputAssumption, FitsFirst DEF IInv
<1> QED
  BY <1>1, Invariance, PTL
=============================================================================
