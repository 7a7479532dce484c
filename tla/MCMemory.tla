------------------------------ MODULE MCMemory ------------------------------
(* Instances of Memory for TLC.                                            *)
EXTENDS Memory, TLC

(* Threads and contexts are interchangeable.                               *)
MemorySymmetry == Permutations(Threads) \cup Permutations(Contexts)
=============================================================================
