---------------------------- MODULE MCDeviceMemory ----------------------------
(* Instances of DeviceMemory for TLC. *)
EXTENDS DeviceMemory, TLC

\* Memories, threads and buffers are each interchangeable.
MemorySymmetry == Permutations(Memories) \cup Permutations(Threads) \cup Permutations(Buffers)
===============================================================================
