------------------------------ MODULE Backends ------------------------------
(***************************************************************************)
(* The two storage backends.  A process has one of them.                   *)
(***************************************************************************)
EXTENDS RedisStorage

CONSTANTS
  MemKeys, MemIds, MemMsgs, MemId, Arrays, MaxCap

VARIABLES
  heap, storage, held, listed

Mem == INSTANCE MemoryStorage WITH
  Keys <- MemKeys, Ids <- MemIds, Msgs <- MemMsgs, Id <- MemId

ASSUME MemAssumption == Mem!MemoryStorageAssumption

(* memory_storage.go implements the Storage interface, in-place writes and *)
(* the slices of its readers notwithstanding.                              *)
MemoryImplementsAtomicStorage == Mem!ImplementsAtomicStorage

(* memory_storage.go: a queue keeps the order of first publication. *)
OrderKept == Mem!OrderKept
=============================================================================
