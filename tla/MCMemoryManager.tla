-------------------------- MODULE MCMemoryManager --------------------------
(* Small instances of MemoryManager: a few bytes, tables of a few entries. *)
EXTENDS MemoryManager

MCSizes == 0..ALL_MEMORY + 1
MCIndices == 0..PointerCount - 1
MCAnyIndices == 0..PointerCount
=============================================================================
