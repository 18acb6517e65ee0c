---------------------------- MODULE MCOversight ----------------------------
(* Constants of the model-checked instance of Oversight. *)
EXTENDS Oversight, TLC

CONSTANTS s1, s2, o1, o2, d1, t1, x1, x2, x3, m1, m2, j1, j2

OrderOfStop == s1 :> o1 @@ s2 :> o2
DriverOfStop == [s \in Stop |-> d1]
DayOfStop == [s \in Stop |-> t1]

Symmetry == Permutations(Warning) \cup Permutations(Scanner) \cup Permutations(Etl)
=============================================================================
