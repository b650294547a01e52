----------------------------- MODULE MCPrlimit -----------------------------
(* One boot process, one spare slot, two callers of prlimit64. *)
EXTENDS Prlimit, TLC

CONSTANTS s1, s2, c1, c2

MCSlot == {s1, s2}
MCBoot == s1 :> 1
MCPid == 1..2
MCUserLimit == {1, 2}
MCSymmetry == Permutations({c1, c2})
============================================================================
