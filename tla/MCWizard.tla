------------------------------ MODULE MCWizard ------------------------------
(* Values for the constants of Wizard and the symmetry of its runs. *)
EXTENDS Wizard, TLC

CONSTANTS p1, p2, none

TwoPages == {p1, p2}
OneAndNone == [p \in Pages |-> IF p = p1 THEN 1 ELSE 0]
=============================================================================
