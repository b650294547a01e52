----------------------------- MODULE MCCpuStats -----------------------------
(* Instances of the cpu_stats module. *)
EXTENDS CpuStats, TLC

CONSTANTS r1, r2

MCSymmetry == Permutations({r1, r2})
=============================================================================
