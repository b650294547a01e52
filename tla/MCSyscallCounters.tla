------------------------- MODULE MCSyscallCounters -------------------------
(* Instances of the call counters. *)
EXTENDS SyscallCounters, TLC

CONSTANTS t1, t2, t3

MCSymmetry == Permutations({t1, t2, t3})
============================================================================
