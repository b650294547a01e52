---------------------------- MODULE MCLimitQuery ----------------------------
(* Instances of the limiter with readers of its list. *)
EXTENDS LimitQuery, TLC

CONSTANTS s1, s2, n1, n2, a1, r1, r2

MCSymmetry == Permutations({n1, n2}) \cup Permutations({r1, r2})
MCBoot2 == s1 :> 1 @@ s2 :> 2
=============================================================================
