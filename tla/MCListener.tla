----------------------------- MODULE MCListener -----------------------------
(* Model-checking instance of Listener: logger names are model values.     *)
EXTENDS Listener

CONSTANTS tA, tB

MCTypes == {tA, tB}

(* The code treats all logger names alike. *)
TypeSymmetry == Permutations(MCTypes)
=============================================================================
