----------------------------- MODULE MCPlatform -----------------------------
(* Constants of the model-checked instance of Platform. *)
EXTENDS Platform, TLC

CONSTANTS w1, w2, a1, a2, a3, e1, e2, n1, n2, r1, r2, r3

Symmetry == Permutations({w1, w2}) \cup Permutations({r1, r2, r3})
              \cup Permutations({n1, n2}) \cup Permutations({a2, a3}) \cup Permutations({e1, e2})
=============================================================================
