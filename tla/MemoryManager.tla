--------------------------- MODULE MemoryManager ---------------------------
(****************************************************************************)
(* Lab_6/WIN/main.cpp: a menu over Malloc, Free and Realloc, which keep     *)
(* their books about the array program_memory in tables of BLOCK_SIZE       *)
(* entries:                                                                 *)
(*   block_buf, block_buf_size     free blocks, block_buf_counter of them;  *)
(*   use_buf, block_size           areas in use; the next one is entered at *)
(*                                 use_buf_counter, and searches look at    *)
(*                                 the first last_block_use_buf entries.    *)
(*                                                                          *)
(* Abstractions.  An address is a number; program_memory is the address of  *)
(* the array, above every small number.  The contents of the memory are     *)
(* left out, the functions never touch them.  An access beyond a table is   *)
(* undefined behaviour: the model stops there, in the state "undefined".    *)
(****************************************************************************)
EXTENDS Integers, FiniteSetsExt

CONSTANTS
  ALL_MEMORY,      \* bytes of program_memory
  BLOCK_SIZE,      \* entries of each table
  PointerCount,    \* entries of `pointers', the table of the menu
  program_memory,  \* the address of the memory
  Sizes, Indices   \* what the user may type

ASSUME TablesAssumption ==
  ALL_MEMORY \in Nat /\ BLOCK_SIZE \in Nat \ {0} /\ PointerCount \in Nat
ASSUME AddressAssumption == program_memory \in Nat /\ program_memory > BLOCK_SIZE
ASSUME InputAssumption == Sizes \subseteq Nat /\ Indices \subseteq Nat

VARIABLES
  heap,       \* the tables and counters of the manager
  pointers,   \* what the menu remembers for each index
  state       \* "menu", "ended", or "undefined"

vars == <<heap, pointers, state>>

NULL == 0
Entries == 0..BLOCK_SIZE - 1

Init ==
  /\ heap = [available_memory |-> ALL_MEMORY,
             block_buf |-> [i \in Entries |-> IF i = 0 THEN program_memory ELSE NULL],
             block_buf_size |-> [i \in Entries |-> IF i = 0 THEN ALL_MEMORY ELSE 0],
             block_buf_counter |-> 1,
             use_buf |-> [i \in Entries |-> NULL],
             block_size |-> [i \in Entries |-> 0],
             use_buf_counter |-> 0,
             last_block_use_buf |-> 0]
  /\ pointers = [i \in 0..PointerCount - 1 |-> NULL]
  /\ state = "menu"

-----------------------------------------------------------------------------
(* Malloc *)

First(S) == CHOOSE i \in S : \A j \in S : i <= j

Fitting(h, size) == {i \in 0..h.block_buf_counter - 1 : size <= h.block_buf_size[i]}

\* Variant: the memory that is left is not looked at.
CanTakeUnchecked(h, size) ==
  /\ Fitting(h, size) # {}
  /\ h.block_buf[First(Fitting(h, size))] # NULL

CanTake(h, size) == size <= h.available_memory /\ CanTakeUnchecked(h, size)

\* The block taken stays in the table with its size; its address becomes
\* last + size + 1 - size. Variant: what is taken is not subtracted.
TakeCharging(h, size, charge) ==
  LET last == First(Fitting(h, size))
  IN  [h EXCEPT !.use_buf[h.use_buf_counter] = h.block_buf[last],
                !.block_size[h.use_buf_counter] = size,
                !.use_buf_counter = @ + 1,
                !.last_block_use_buf = @ + 1,
                !.block_buf[last] = last + 1,
                !.available_memory = @ - charge]

TakeUncharged(h, size) == TakeCharging(h, size, 0)
Take(h, size) == TakeCharging(h, size, size)

Malloc(h, size) ==
  IF CanTake(h, size)
  THEN [heap |-> Take(h, size), block |-> h.block_buf[First(Fitting(h, size))]]
  ELSE [heap |-> h, block |-> NULL]

MallocOverrun(h, size) == CanTake(h, size) /\ h.use_buf_counter >= BLOCK_SIZE

-----------------------------------------------------------------------------
(* Free *)

\* The entries a search for an area finds.
Holding(h, block) ==
  {i \in Entries : i < h.last_block_use_buf /\ h.use_buf[i] = block}

\* Release entry `last' of use_buf, and enter its area as a free block at `at'. Variants:
\* use_buf keeps it; the free block is entered where the area was.
Release(h, last, at, kept) ==
  [h EXCEPT !.use_buf[last] = kept,
            !.use_buf_counter = @ - 1,
            !.block_buf[at] = h.use_buf[last],
            !.block_buf_size[at] = h.block_size[last],
            !.block_buf_counter = @ + 1,
            !.available_memory = @ + h.block_size[last]]

GiveKeeping(h, last) == Release(h, last, h.block_buf_counter, h.use_buf[last])
GiveInPlace(h, last) == Release(h, last, last, NULL)
Give(h, last) == Release(h, last, h.block_buf_counter, NULL)

Known(h, block) == block # NULL /\ Holding(h, block) # {}

Free(h, block) == IF Known(h, block) THEN Give(h, First(Holding(h, block))) ELSE h

FreeOverrun(h, block) ==
  \/ Holding(h, block) = {} /\ h.last_block_use_buf > BLOCK_SIZE
  \/ Known(h, block) /\ h.block_buf_counter >= BLOCK_SIZE

-----------------------------------------------------------------------------
(* Realloc *)

\* A null pointer, when the search finds a released entry.
Fresh(h, block) == block = NULL /\ Holding(h, block) # {}

Realloc(h, block, size) ==
  IF Fresh(h, block) THEN Malloc(h, size)
  ELSE IF size = 0 THEN [heap |-> Free(h, block), block |-> NULL]
  ELSE IF Known(h, block) THEN Malloc(Free(h, block), size)
  ELSE [heap |-> h, block |-> NULL]

ReallocOverrun(h, block, size) ==
  IF Fresh(h, block) THEN MallocOverrun(h, size)
  ELSE \/ h.last_block_use_buf > BLOCK_SIZE
       \/ FreeOverrun(h, block)
       \/ size # 0 /\ Known(h, block) /\ MallocOverrun(Free(h, block), size)

-----------------------------------------------------------------------------
(* The menu *)

Undefined == state' = "undefined" /\ UNCHANGED <<heap, pointers>>

\* The program keeps the result for the index and ends when it is NULL.
Store(index, result) ==
  /\ heap' = result.heap
  /\ pointers' = [pointers EXCEPT ![index] = result.block]
  /\ state' = IF result.block = NULL THEN "ended" ELSE "menu"

\* '1'
UseMalloc(index, size) ==
  /\ state = "menu" /\ index < PointerCount
  /\ pointers[index] = NULL
  /\ IF MallocOverrun(heap, size) THEN Undefined ELSE Store(index, Malloc(heap, size))

\* '2': the pointer is kept after it has been freed.
UseFree(index) ==
  /\ state = "menu" /\ index < PointerCount
  /\ IF FreeOverrun(heap, pointers[index])
     THEN Undefined
     ELSE /\ heap' = Free(heap, pointers[index])
          /\ UNCHANGED <<pointers, state>>

\* '3'
UseRealloc(index, size) ==
  /\ state = "menu" /\ index < PointerCount
  /\ IF ReallocOverrun(heap, pointers[index], size)
     THEN Undefined
     ELSE Store(index, Realloc(heap, pointers[index], size))

\* '2' and '3' accept every index; '1' refuses those above PointerCount only.
WrongIndex(index) ==
  state = "menu" /\ index >= PointerCount /\ Undefined

\* '4'
Quit ==
  /\ state = "menu" /\ state' = "ended"
  /\ UNCHANGED <<heap, pointers>>

Ended == state # "menu" /\ UNCHANGED vars

Next ==
  \/ \E index \in Indices, size \in Sizes : UseMalloc(index, size) \/ UseRealloc(index, size)
  \/ \E index \in Indices : UseFree(index) \/ WrongIndex(index)
  \/ Quit \/ Ended

Spec == Init /\ [][Next]_vars

-----------------------------------------------------------------------------
(* Properties *)

Address == Nat

\* Every variable holds a value of its type, and no unsigned counter has wrapped around.
TypeOK ==
  /\ heap \in [available_memory : 0..ALL_MEMORY,
               block_buf : [Entries -> Address], block_buf_size : [Entries -> Nat],
               block_buf_counter : 1..BLOCK_SIZE,
               use_buf : [Entries -> Address], block_size : [Entries -> Nat],
               use_buf_counter : 0..BLOCK_SIZE, last_block_use_buf : Nat]
  /\ pointers \in [0..PointerCount - 1 -> Address]
  /\ state \in {"menu", "ended", "undefined"}

Occupied == {i \in Entries : heap.use_buf[i] # NULL}

\* use_buf_counter counts every occupied entry, whatever holes Free has left and
\* whatever Malloc has overwritten, so that it never wraps around; and every occupied
\* entry is where the searches look.
CounterCovers ==
  /\ Cardinality(Occupied) <= heap.use_buf_counter
  /\ \A i \in Occupied : i < heap.last_block_use_buf

SumOf(f, S) == MapThenSumSet(LAMBDA i : f[i], S)

\* What is in use and what is available never add up to more than there is: Free gives
\* back only what was taken, also when it finds the entry of another area.
Accounting == heap.available_memory + SumOf(heap.block_size, Occupied) <= ALL_MEMORY

\* The counters and tables keep to their ranges, and the books balance.
Books == TypeOK /\ Accounting

\* Malloc always takes block 0, which keeps its size for ever: it fails only when
\* too little memory is left, and the blocks Free enters are never used again.
BlockZeroFits ==
  \A size \in Sizes : size <= heap.available_memory =>
    CanTake(heap, size) /\ First(Fitting(heap, size)) = 0

\* The areas given out lie in program_memory and no two of them overlap.
OwnArea ==
  \A i \in Occupied :
    LET from == heap.use_buf[i]
        to == from + heap.block_size[i]
    IN  /\ program_memory <= from /\ to <= program_memory + ALL_MEMORY
        /\ \A j \in Occupied \ {i} :
             to <= heap.use_buf[j] \/ heap.use_buf[j] + heap.block_size[j] <= from
=============================================================================
