------------------------------ MODULE MCIntake ------------------------------
(* Constants of the model-checked instance of Intake. *)
EXTENDS Intake, TLC

CONSTANTS o1, o2, o3, w1, w2, ra

Files == {<<"good", "badDate", "good">>, <<"badNumber", "incomplete">>, <<"good", "overlong">>}

Symmetry == Permutations(Order) \cup Permutations(Worker)
=============================================================================
