--------------------------- MODULE MCSampleMemory ---------------------------
(* The places in the heap are interchangeable.                             *)
EXTENDS SampleMemory, TLC

Places == Permutations(Stores)
=============================================================================
