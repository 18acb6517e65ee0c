---------------------------- MODULE MCAssistant ----------------------------
(* Constants of the model-checked instance of Assistant. *)
EXTENDS Assistant, TLC

CONSTANTS w1, w2, ga, gb, gc, p1, c1, q1, q2

Planners == w1 :> "langgraph" @@ w2 :> "multi_agent"

\* A crowded day and a day with few orders, most of them urgent.
Contexts ==
  {[orders |-> 16, drivers |-> 1, urgent |-> 16, windows |-> 9],
   [orders |-> 3, drivers |-> 1, urgent |-> 2, windows |-> 0]}

Symmetry == Permutations(Question)
=============================================================================
