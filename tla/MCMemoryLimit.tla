--------------------------- MODULE MCMemoryLimit ---------------------------
(* Instances of the memory limiter: two task slots and pids, two list nodes. *)
EXTENDS MemoryLimit, TLC

CONSTANTS s1, s2, n1, n2, a1, a2, p1

MCSymmetry == Permutations({n1, n2}) \cup Permutations({a1, a2})
MCBoot1 == s1 :> 1
MCBoot2 == s1 :> 1 @@ s2 :> 2
============================================================================
