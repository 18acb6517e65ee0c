---------------------------- MODULE MCDispatch ----------------------------
(* Constants of the model-checked instances of Dispatch. *)
EXTENDS Dispatch, TLC

CONSTANTS o1, o2, d1, d2, p1, p2, p3, w1, w2

NoLeave == {}
\* d1 has a LEAVE shift on the first date.
FirstOnLeave == {<<d1, 1>>}

\* Rows and workers are interchangeable; no definition names one of them.
Symmetry ==
  Permutations(Order) \cup Permutations(Driver)
    \cup Permutations(Plan) \cup Permutations(Worker)
=============================================================================
